---- MODULE Spec2Model ----
(***************************************************************************)
(* llmwarden: the LLMAccess reconciler                                     *)
(* (internal/controller/llmaccess_controller.go) over a model of the       *)
(* Kubernetes object store: LLMAccess grants, LLMProvider declarations,    *)
(* Namespaces and Secrets.                                                 *)
(*                                                                         *)
(* Conventions.  A Go pointer / optional object is a sequence of length    *)
(* at most one (None, Some(x)).  A Go string that the code takes apart     *)
(* (a duration) is a sequence of one-character strings.  A formatted       *)
(* message is the sequence of its pieces, \o is concatenation.  Times are  *)
(* seconds on the model's clock.                                           *)
(***************************************************************************)
EXTENDS Integers, Sequences, FiniteSets, TLC

\* ------------------------------------------------------------------ bounds
\* Number of events of the environment (an edit by the tenant or the platform
\* operator, or time passing); the clock advances by one with each.
MaxEvents == 1
\* Longest duration string taken from the whole alphabet.
MaxLen == 3
\* Number of setCondition calls on one object, and of clock ticks between them.
MaxCalls == 3

\* ------------------------------------------------------- optional values
None == <<>>
Some(x) == <<x>>
IsSome(o) == o # <<>>
Get(o) == o[1]

Range(s) == {s[i] : i \in 1..Len(s)}

\* strings.Join(s, ", ") on a message made of pieces
RECURSIVE Join(_)
Join(s) ==
    IF Len(s) = 0 THEN <<>>
    ELSE IF Len(s) = 1 THEN <<s[1]>>
    ELSE <<s[1], ", ">> \o Join(Tail(s))

\* ------------------------------------------------------ program constants
ConditionTypeReady == "Ready"
ConditionTypeCredentialProvisioned == "CredentialProvisioned"
ReasonProviderNotFound == "ProviderNotFound"
ReasonNamespaceNotAllowed == "NamespaceNotAllowed"
ReasonModelNotAllowed == "ModelNotAllowed"
ReasonAuthTypeNotSupported == "AuthTypeNotSupported"
ReasonSecretCreated == "SecretCreated"
ReasonSecretUpdateFailed == "SecretUpdateFailed"
ReasonCredentialProvisioned == "CredentialProvisioned"
ReasonReconciliationError == "ReconciliationError"
llmAccessFinalizer == "llmwarden.io/finalizer"
AuthTypeAPIKey == "apiKey"
AuthTypeExternalSecret == "externalSecret"
AuthTypeWorkloadIdentity == "workloadIdentity"
ConditionTrue == "True"
ConditionFalse == "False"
\* 30 * time.Second and 5 * time.Minute, in seconds of the model's clock
RequeueProviderNotFound == 30
RequeueProvisionFailed == 30
RequeueAuthTypeNotSupported == 300

\* ------------------------------------------------------------ the objects
Grants == {"chatbot-access", "second-access"}
\* The grants that reconcile requests name: those that were ever created.
Requests == {"chatbot-access"}
ProviderName == "openai-prod"
AccessNamespace == "team-a"
ProviderNamespace == "llmwarden-system"
TargetSecretName == "openai-credentials"
SourceSecretName == "openai-key"
SourceSecretKey == "api-key"

TargetKey == <<AccessNamespace, TargetSecretName>>
SourceKey == <<ProviderNamespace, SourceSecretName>>
SecretKeys == {TargetKey, SourceKey}

\* A label set (map[string]string) is a function on its keys.
NoLabels == [k \in {} |-> "x"]
Label(k, v) == [x \in {k} |-> v]

\* metav1.LabelSelector: MatchLabels plus MatchExpressions
LabelSelector(ml, me) == [MatchLabels |-> ml, MatchExpressions |-> me]


\* labels.Selector.Matches for the selector LabelSelectorAsSelector builds:
\* every MatchLabels pair and every MatchExpressions requirement holds.
RequirementMatches(req, lbls) ==
    CASE req.operator = "In" -> req.key \in DOMAIN lbls /\ lbls[req.key] \in req.values
      [] req.operator = "NotIn" -> ~(req.key \in DOMAIN lbls /\ lbls[req.key] \in req.values)
      [] req.operator = "Exists" -> req.key \in DOMAIN lbls
      [] req.operator = "DoesNotExist" -> req.key \notin DOMAIN lbls
      [] OTHER -> FALSE

\* metav1.LabelSelectorAsSelector fails on an unknown operator, on In/NotIn
\* without values and on Exists/DoesNotExist with values.
RequirementValid(req) ==
    CASE req.operator \in {"In", "NotIn"} -> req.values # {}
      [] req.operator \in {"Exists", "DoesNotExist"} -> req.values = {}
      [] OTHER -> FALSE

SelectorValid(sel) ==
    \A i \in 1..Len(sel.MatchExpressions) : RequirementValid(sel.MatchExpressions[i])

SelectorMatches(sel, lbls) ==
    /\ \A k \in DOMAIN sel.MatchLabels :
          k \in DOMAIN lbls /\ lbls[k] = sel.MatchLabels[k]
    /\ \A i \in 1..Len(sel.MatchExpressions) :
          RequirementMatches(sel.MatchExpressions[i], lbls)

\* ------------------------------------------------------------ int64 values
\* A Go int / time.Duration is 64 bits wide.  A number is the sequence of its
\* 16-bit limbs, least significant first: four limbs are an int64 in two's
\* complement, eight limbs hold the exact value of everything computed here.
Limb == 65536
Wide == 8
Zero64 == <<0, 0, 0, 0>>

\* x * m + carry on limbs, for 0 <= m, carry < 2^15; a carry out of the last
\* limb is dropped (on four limbs: the wrap-around of int64 arithmetic)
RECURSIVE MulLimbs(_, _, _)
MulLimbs(x, m, carry) ==
    IF Len(x) = 0 THEN <<>>
    ELSE LET p == x[1] * m + carry
         IN  <<p % Limb>> \o MulLimbs(Tail(x), m, p \div Limb)

\* x \div m on limbs, for 0 < m < 2^15 and x >= 0; rem is the remainder
\* carried in from the more significant limbs
RECURSIVE DivLimbs(_, _, _)
DivLimbs(x, m, rem) ==
    IF Len(x) = 0 THEN <<>>
    ELSE LET n == Len(x)
             v == rem * Limb + x[n]
         IN  Append(DivLimbs(SubSeq(x, 1, n - 1), m, v % m), v \div m)

Pad(x, n) == [i \in 1..n |-> IF i <= Len(x) THEN x[i] ELSE 0]
Negative(d) == d[4] >= 32768
Positive(d) == ~Negative(d) /\ d # Zero64

\* x <= y for non-negative numbers of the same number of limbs
RECURSIVE LimbsLeq(_, _)
LimbsLeq(x, y) ==
    IF Len(x) = 0 THEN TRUE
    ELSE LET n == Len(x)
         IN  IF x[n] # y[n] THEN x[n] < y[n]
             ELSE LimbsLeq(SubSeq(x, 1, n - 1), SubSeq(y, 1, n - 1))

\* x * time.Minute, x * time.Hour, x * 24 * time.Hour (nanoseconds), in the
\* width of x
MulMinute(x) == MulLimbs(MulLimbs(MulLimbs(MulLimbs(x, 60, 0), 1000, 0), 1000, 0), 1000, 0)
MulHour(x) == MulMinute(MulLimbs(x, 60, 0))
MulDay(x) == MulHour(MulLimbs(x, 24, 0))

\* The whole seconds of a non-negative duration below 2^31 seconds, the
\* resolution and the range of the model's clock.
Seconds(d) ==
    LET q == DivLimbs(DivLimbs(DivLimbs(d, 1000, 0), 1000, 0), 1000, 0)
    IN  q[1] + q[2] * Limb

\* ----------------------------------------------------------- parseDuration
Digits == {"0", "1", "2", "3", "4", "5", "6", "7", "8", "9"}

DigitValue(c) ==
    CASE c = "0" -> 0 [] c = "1" -> 1 [] c = "2" -> 2 [] c = "3" -> 3
      [] c = "4" -> 4 [] c = "5" -> 5 [] c = "6" -> 6 [] c = "7" -> 7
      [] c = "8" -> 8 [] c = "9" -> 9

\* the exact value of a run of decimal digits (at most 24 of them)
RECURSIVE DecimalValue(_)
DecimalValue(s) ==
    IF Len(s) = 0 THEN Pad(<<>>, Wide)
    ELSE MulLimbs(DecimalValue(SubSeq(s, 1, Len(s) - 1)), 10, DigitValue(s[Len(s)]))

\* strconv.Atoi on a non-empty run of decimal digits: [err, value], a range
\* error when the value is above the largest int64
Atoi(s) ==
    LET v == DecimalValue(s)
    IN  IF (\E i \in 5..Wide : v[i] # 0) \/ v[4] >= 32768
        THEN [err |-> TRUE, value |-> Zero64]
        ELSE [err |-> FALSE, value |-> SubSeq(v, 1, 4)]

\* index of the first character that is no digit, 0 when there is none
FirstNonDigit(s) ==
    IF \E i \in 1..Len(s) : s[i] \notin Digits
    THEN CHOOSE i \in 1..Len(s) :
            s[i] \notin Digits /\ \A j \in 1..(i - 1) : s[j] \in Digits
    ELSE 0

\* parseDuration(s) = [err, d]: d is the time.Duration, an int64 of nanoseconds
parseDuration(s) ==
    LET i == FirstNonDigit(s)
        a == Atoi(SubSeq(s, 1, i - 1))
        unit == SubSeq(s, i, Len(s))
    IN  IF Len(s) = 0 THEN [err |-> TRUE, d |-> Zero64]
        ELSE IF i = 1 THEN [err |-> TRUE, d |-> Zero64]
        ELSE IF i = 0 THEN [err |-> TRUE, d |-> Zero64]
        ELSE IF a.err THEN [err |-> TRUE, d |-> Zero64]
        ELSE IF unit = <<"d">> THEN [err |-> FALSE, d |-> MulDay(a.value)]
        ELSE IF unit = <<"h">> THEN [err |-> FALSE, d |-> MulHour(a.value)]
        ELSE IF unit = <<"m">> THEN [err |-> FALSE, d |-> MulMinute(a.value)]
        ELSE [err |-> TRUE, d |-> Zero64]

\* ------------------------------------------------------------ setCondition
Condition(type, status, reason, message, now, generation) ==
    [Type |-> type, Status |-> status, Reason |-> reason, Message |-> message,
     LastTransitionTime |-> now, ObservedGeneration |-> generation]

\* index of the first condition of the type, 0 when there is none
FindCondition(conditions, type) ==
    IF \E i \in 1..Len(conditions) : conditions[i].Type = type
    THEN CHOOSE i \in 1..Len(conditions) :
            conditions[i].Type = type
            /\ \A j \in 1..(i - 1) : conditions[j].Type # type
    ELSE 0

\* Defect for C16: the transition time is stamped on every call.
M_setCondition(llmAccess, type, status, reason, message, now) ==
    LET conditions == llmAccess.Status.Conditions
        i == FindCondition(conditions, type)
        old == conditions[i]
        updated ==
            [old EXCEPT
               !.Status = status,
               !.LastTransitionTime = now,
               !.Reason = reason,
               !.Message = message,
               !.ObservedGeneration = llmAccess.Generation]
    IN  IF i # 0
        THEN [llmAccess EXCEPT !.Status.Conditions = [conditions EXCEPT ![i] = updated]]
        ELSE [llmAccess EXCEPT !.Status.Conditions =
                 Append(conditions,
                        Condition(type, status, reason, message, now,
                                  llmAccess.Generation))]

\* setCondition on the in-memory object: the object with the condition set
setCondition(llmAccess, type, status, reason, message, now) ==
    LET conditions == llmAccess.Status.Conditions
        i == FindCondition(conditions, type)
        old == conditions[i]
        updated ==
            [old EXCEPT
               !.Status = status,
               !.LastTransitionTime =
                   IF old.Status # status THEN now ELSE old.LastTransitionTime,
               !.Reason = reason,
               !.Message = message,
               !.ObservedGeneration = llmAccess.Generation]
    IN  IF i # 0
        THEN [llmAccess EXCEPT !.Status.Conditions = [conditions EXCEPT ![i] = updated]]
        ELSE [llmAccess EXCEPT !.Status.Conditions =
                 Append(conditions,
                        Condition(type, status, reason, message, now,
                                  llmAccess.Generation))]

\* LLMProviderReconciler.setCondition: the same on an LLMProvider
setConditionProvider(provider, type, status, reason, message, now) ==
    LET conditions == provider.Status.Conditions
        i == FindCondition(conditions, type)
        cond == conditions[i]
        updated ==
            [cond EXCEPT
               !.LastTransitionTime =
                   IF cond.Status # status THEN now ELSE cond.LastTransitionTime,
               !.Status = status,
               !.Reason = reason,
               !.Message = message,
               !.ObservedGeneration = provider.Generation]
    IN  IF i # 0
        THEN [provider EXCEPT !.Status.Conditions = [conditions EXCEPT ![i] = updated]]
        ELSE [provider EXCEPT !.Status.Conditions =
                 Append(conditions,
                        Condition(type, status, reason, message, now,
                                  provider.Generation))]

\* ---------------------------------------------------------- validateModels
\* Defect for C5: only the first requested model is looked up.
M_validateModels(requestedModels, provider) ==
    LET allowed == provider.Spec.AllowedModels
    IN  IF Len(allowed) = 0 \/ Len(requestedModels) = 0 THEN None
        ELSE IF requestedModels[1] \notin Range(allowed)
        THEN Some(<<"models not allowed: ", requestedModels[1],
                    " (allowed models: ">> \o Join(allowed) \o <<")">>)
        ELSE None

\* validateModels = the error (a message) or None
validateModels(requestedModels, provider) ==
    LET allowed == provider.Spec.AllowedModels
        notAllowed == SelectSeq(requestedModels, LAMBDA m : m \notin Range(allowed))
    IN  IF Len(allowed) = 0 THEN None
        ELSE IF Len(notAllowed) > 0
        THEN Some(<<"models not allowed: ">> \o Join(notAllowed)
                  \o <<" (allowed models: ">> \o Join(allowed) \o <<")">>)
        ELSE None

\* ------------------------------------------------------ isNamespaceAllowed
\* Defect for C4: the selector is built but never matched against the labels.
M_isNamespaceAllowed(ns, provider) ==
    IF ~IsSome(provider.Spec.NamespaceSelector) THEN TRUE
    ELSE IF ~IsSome(ns) THEN FALSE
    ELSE SelectorValid(Get(provider.Spec.NamespaceSelector))

\* ns: the Namespace object r.Get returns, None when the Get fails
isNamespaceAllowed(ns, provider) ==
    IF ~IsSome(provider.Spec.NamespaceSelector) THEN TRUE
    ELSE IF ~IsSome(ns) THEN FALSE
    ELSE IF ~SelectorValid(Get(provider.Spec.NamespaceSelector)) THEN FALSE
    ELSE SelectorMatches(Get(provider.Spec.NamespaceSelector), Get(ns).Labels)

\* ----------------------------------------------------- getRotationInterval
\* Defect for C12: an override that does not parse ends the computation with
\* "no rotation" instead of falling through to the declaration.
M_getRotationInterval(llmAccess, provider) ==
    LET override == llmAccess.Spec.Rotation
        apiKey == provider.Spec.Auth.APIKey
    IN  IF IsSome(override) /\ Get(override).Interval # <<>>
        THEN parseDuration(Get(override).Interval).d
        ELSE IF /\ IsSome(apiKey)
                /\ IsSome(Get(apiKey).Rotation)
                /\ Get(Get(apiKey).Rotation).Enabled
                /\ Get(Get(apiKey).Rotation).Interval # <<>>
                /\ ~parseDuration(Get(Get(apiKey).Rotation).Interval).err
        THEN parseDuration(Get(Get(apiKey).Rotation).Interval).d
        ELSE Zero64

getRotationInterval(llmAccess, provider) ==
    LET override == llmAccess.Spec.Rotation
        apiKey == provider.Spec.Auth.APIKey
    IN  IF /\ IsSome(override)
           /\ Get(override).Interval # <<>>
           /\ ~parseDuration(Get(override).Interval).err
        THEN parseDuration(Get(override).Interval).d
        ELSE IF /\ IsSome(apiKey)
                /\ IsSome(Get(apiKey).Rotation)
                /\ Get(Get(apiKey).Rotation).Enabled
                /\ Get(Get(apiKey).Rotation).Interval # <<>>
                /\ ~parseDuration(Get(Get(apiKey).Rotation).Interval).err
        THEN parseDuration(Get(Get(apiKey).Rotation).Interval).d
        ELSE Zero64

\* ------------------------------------------------- effectiveRefreshInterval
\* Defect for C25: the declaration's interval wins over the grant's.
M_effectiveRefreshInterval(llmAccess, providerInterval) ==
    IF providerInterval # <<>> THEN providerInterval
    ELSE IF IsSome(llmAccess.Spec.Rotation) /\ Get(llmAccess.Spec.Rotation).Interval # <<>>
    THEN Get(llmAccess.Spec.Rotation).Interval
    ELSE <<"1", "h">>

\* ExternalSecretProvisioner.effectiveRefreshInterval
effectiveRefreshInterval(llmAccess, providerInterval) ==
    IF IsSome(llmAccess.Spec.Rotation) /\ Get(llmAccess.Spec.Rotation).Interval # <<>>
    THEN Get(llmAccess.Spec.Rotation).Interval
    ELSE IF providerInterval # <<>> THEN providerInterval
    ELSE <<"1", "h">>

\* ------------------------------------------------------------------ state
VARIABLES
    access,      \* the LLMAccess objects of the store, by name (None: absent)
    providers,   \* the LLMProvider objects of the store, by name
    namespaces,  \* the Namespace objects of the store, by name
    secrets,     \* the Secret objects of the store, by <<namespace, name>>
    now,         \* the clock (metav1.Now()): the number of environment events
    last,        \* the reconciliation pass that has just returned (NoPass: none)
    bench        \* a single function under study: its arguments and its result
                 \* (NoBench: none, the reconciler runs against the store)

vars == <<access, providers, namespaces, secrets, now, last, bench>>

NoBench == [fn |-> "none"]

ProviderNames == {ProviderName}
NamespaceNames == {AccessNamespace}

\* r.Get of an LLMProvider by name
GetProvider(name) == IF name \in ProviderNames THEN providers[name] ELSE None

\* API calls of a pass that can fail for a reason other than not-found
\* (conflict, timeout, RBAC); a pass suffers at most one of them.
Faults == {"Update", "GetProvider", "GetNamespace", "WriteSecret", "StatusUpdate"}
NoFault == "none"

\* ctrl.Result and the error Reconcile returns
Result(requeue, requeueAfter, err) ==
    [Requeue |-> requeue, RequeueAfter |-> requeueAfter, err |-> err]

NoPass ==
    [g |-> "", branch |-> "none", result |-> Result(FALSE, 0, FALSE),
     calls |-> <<>>, events |-> <<>>, fault |-> NoFault, pre |-> None,
     clean |-> None]

\* ------------------------------------------------- SetControllerReference
\* controllerutil.SetControllerReference: the owner references with owner as
\* the controller, or an error when another object already is the controller.
\* Defect for C39: another controller owner is no obstacle.
M_AlreadyOwned(secret, owner) == FALSE

AlreadyOwned(secret, owner) ==
    \E r \in secret.OwnerReferences : r.Controller /\ r.Name # owner

SetControllerReference(owner, secret) ==
    [secret EXCEPT !.OwnerReferences =
        {r \in @ : r.Name # owner} \cup {[Name |-> owner, Controller |-> TRUE]}]

\* The API server folds the write-only StringData of a Secret into Data.
MergeStringData(data, stringData) ==
    [k \in DOMAIN data \cup DOMAIN stringData |->
        IF k \in DOMAIN stringData THEN stringData[k] ELSE data[k]]

EmptySecret == [Data |-> NoLabels, Labels |-> NoLabels, OwnerReferences |-> {}]

\* --------------------------------------------------- provisionAPIKeySecret
\* Defect for C22: the copy is written without the grant as its owner.
M_MutateTargetSecretUnowned(target, sourceValue, llmAccess, provider) ==
    LET baseUrl ==
            IF IsSome(provider.Spec.Endpoint) /\ Get(provider.Spec.Endpoint).BaseURL # ""
            THEN Label("baseUrl", Get(provider.Spec.Endpoint).BaseURL)
            ELSE NoLabels
        stringData == MergeStringData(baseUrl, Label("provider", provider.Spec.Provider))
        tracking == [k \in {"llmwarden.io/managed-by", "llmwarden.io/provider",
                            "llmwarden.io/access"} |->
                        CASE k = "llmwarden.io/managed-by" -> "llmwarden"
                          [] k = "llmwarden.io/provider" -> provider.Name
                          [] k = "llmwarden.io/access" -> llmAccess.Name]
    IN  [target EXCEPT
           !.Data = MergeStringData(MergeStringData(@, Label("apiKey", sourceValue)),
                                    stringData),
           !.Labels = MergeStringData(@, tracking)]

\* Defect for C20: the copy is filled in when it is created and an apiKey
\* that is already there is kept.
M_MutateTargetSecret(target, sourceValue, llmAccess, provider) ==
    LET owned == SetControllerReference(llmAccess.Name, target)
        data == IF "apiKey" \in DOMAIN owned.Data THEN owned.Data
                ELSE MergeStringData(owned.Data, Label("apiKey", sourceValue))
        baseUrl ==
            IF IsSome(provider.Spec.Endpoint) /\ Get(provider.Spec.Endpoint).BaseURL # ""
            THEN Label("baseUrl", Get(provider.Spec.Endpoint).BaseURL)
            ELSE NoLabels
        stringData == MergeStringData(baseUrl, Label("provider", provider.Spec.Provider))
        tracking == [k \in {"llmwarden.io/managed-by", "llmwarden.io/provider",
                            "llmwarden.io/access"} |->
                        CASE k = "llmwarden.io/managed-by" -> "llmwarden"
                          [] k = "llmwarden.io/provider" -> provider.Name
                          [] k = "llmwarden.io/access" -> llmAccess.Name]
    IN  [owned EXCEPT !.Data = MergeStringData(data, stringData),
                      !.Labels = MergeStringData(@, tracking)]

\* the mutate function handed to CreateOrUpdate, with the StringData it sets
\* already folded into Data as the API server stores it
MutateTargetSecret(target, sourceValue, llmAccess, provider) ==
    LET owned == SetControllerReference(llmAccess.Name, target)
        data == [k \in DOMAIN owned.Data \cup {"apiKey"} |->
                    IF k = "apiKey" THEN sourceValue ELSE owned.Data[k]]
        baseUrl ==
            IF IsSome(provider.Spec.Endpoint) /\ Get(provider.Spec.Endpoint).BaseURL # ""
            THEN [k \in {"baseUrl"} |-> Get(provider.Spec.Endpoint).BaseURL]
            ELSE NoLabels
        stringData == MergeStringData(baseUrl, [k \in {"provider"} |-> provider.Spec.Provider])
        tracking == [k \in {"llmwarden.io/managed-by", "llmwarden.io/provider",
                            "llmwarden.io/access"} |->
                        CASE k = "llmwarden.io/managed-by" -> "llmwarden"
                          [] k = "llmwarden.io/provider" -> provider.Name
                          [] k = "llmwarden.io/access" -> llmAccess.Name]
    IN  [owned EXCEPT !.Data = MergeStringData(data, stringData),
                      !.Labels = MergeStringData(@, tracking)]

\* Defect for C17: the target Secret is written with Create instead of
\* CreateOrUpdate, so a Secret left by an earlier pass makes the call fail.
M_provisionAPIKeySecret(llmAccess, provider, fault) ==
    LET apiKey == Get(provider.Spec.Auth.APIKey)
        sourceKey == <<apiKey.SecretRef.Namespace, apiKey.SecretRef.Name>>
        sourceSecret == IF sourceKey \in SecretKeys THEN secrets[sourceKey] ELSE None
        secretKey == apiKey.SecretRef.Key
        targetKey == <<llmAccess.Namespace, llmAccess.Spec.SecretName>>
        Fail(msg) == [err |-> Some(msg), secrets |-> secrets]
    IN  IF ~IsSome(provider.Spec.Auth.APIKey)
        THEN Fail(<<"provider ", provider.Name, " does not have apiKey configuration">>)
        ELSE IF ~IsSome(sourceSecret)
        THEN Fail(<<"provider secret ", sourceKey[1], "/", sourceKey[2],
                    " not found: ", "not found">>)
        ELSE IF secretKey \notin DOMAIN Get(sourceSecret).Data
        THEN Fail(<<"key ", secretKey, " not found in secret ",
                    sourceKey[1], "/", sourceKey[2]>>)
        ELSE IF IsSome(secrets[targetKey])
        THEN Fail(<<"failed to create/update secret: ", "already exists">>)
        ELSE IF fault = "WriteSecret"
        THEN Fail(<<"failed to create/update secret: ", "api error">>)
        ELSE [err |-> None,
              secrets |-> [secrets EXCEPT ![targetKey] =
                  Some(MutateTargetSecret(EmptySecret, Get(sourceSecret).Data[secretKey],
                                          llmAccess, provider))]]

\* provisionAPIKeySecret = [err, secrets]: the error (None: success) and the
\* Secrets of the store after the call
provisionAPIKeySecret(llmAccess, provider, fault) ==
    LET apiKey == Get(provider.Spec.Auth.APIKey)
        sourceKey == <<apiKey.SecretRef.Namespace, apiKey.SecretRef.Name>>
        sourceSecret == IF sourceKey \in SecretKeys THEN secrets[sourceKey] ELSE None
        secretKey == apiKey.SecretRef.Key
        targetKey == <<llmAccess.Namespace, llmAccess.Spec.SecretName>>
        existing == secrets[targetKey]
        target == IF IsSome(existing) THEN Get(existing) ELSE EmptySecret
        Fail(msg) == [err |-> Some(msg), secrets |-> secrets]
    IN  IF ~IsSome(provider.Spec.Auth.APIKey)
        THEN Fail(<<"provider ", provider.Name, " does not have apiKey configuration">>)
        ELSE IF ~IsSome(sourceSecret)
        THEN Fail(<<"provider secret ", sourceKey[1], "/", sourceKey[2],
                    " not found: ", "not found">>)
        ELSE IF secretKey \notin DOMAIN Get(sourceSecret).Data
        THEN Fail(<<"key ", secretKey, " not found in secret ",
                    sourceKey[1], "/", sourceKey[2]>>)
        ELSE IF AlreadyOwned(target, llmAccess.Name)
        THEN Fail(<<"failed to create/update secret: ",
                    "failed to set owner reference: ", "already owned">>)
        ELSE IF fault = "WriteSecret"
        THEN Fail(<<"failed to create/update secret: ", "api error">>)
        ELSE [err |-> None,
              secrets |-> [secrets EXCEPT ![targetKey] =
                  Some(MutateTargetSecret(target, Get(sourceSecret).Data[secretKey],
                                          llmAccess, provider))]]

\* ---------------------------------------------------------------- Reconcile
Event(type, reason) == [Type |-> type, Reason |-> reason]

\* What a pass leaves behind: the stored grant (None: gone), the Secrets,
\* and what it returned.
Outcome(obj, newSecrets, branch, result, calls, events) ==
    [access |-> obj, secrets |-> newSecrets, branch |-> branch, result |-> result,
     calls |-> calls, events |-> events]

\* r.Status().Update(ctx, llmAccess) followed by the return of its branch:
\* a failed update returns the error and leaves the stored status as it was.
StatusUpdate(stored, llmAccess, newSecrets, branch, result, calls, events, fault) ==
    IF fault = "StatusUpdate"
    THEN Outcome(Some(stored), newSecrets, branch, Result(FALSE, 0, TRUE),
                 Append(calls, "StatusUpdate"), events)
    ELSE Outcome(Some([stored EXCEPT !.Status = llmAccess.Status]), newSecrets,
                 branch, result, Append(calls, "StatusUpdate"), events)

\* Defect for C8: the success branch records the secret reference and the
\* conditions but not the provisioned models.
M_ReconcileProvisioned(stored, provider, newSecrets, calls, fault) ==
    LET rotationInterval == getRotationInterval(stored, provider)
        s1 == [stored EXCEPT
                 !.Status.SecretRef =
                     Some([Kind |-> "Secret", Namespace |-> stored.Namespace,
                           Name |-> stored.Spec.SecretName]),
                 !.Status.LastRotation = Some(now)]
        s3 == setCondition(s1, ConditionTypeCredentialProvisioned, ConditionTrue,
                           ReasonSecretCreated,
                           <<"Secret created/updated successfully">>, now)
        s4 == setCondition(s3, ConditionTypeReady, ConditionTrue,
                           ReasonCredentialProvisioned,
                           <<"Credentials provisioned and ready">>, now)
    IN  StatusUpdate(stored, s4, newSecrets, "Provisioned",
                     IF Positive(rotationInterval)
                     THEN Result(FALSE, Seconds(rotationInterval), FALSE)
                     ELSE Result(FALSE, 0, FALSE),
                     Append(calls, "getRotationInterval"),
                     <<Event("Normal", ReasonCredentialProvisioned)>>, fault)

\* Defect for C13: the delay of the pass is added to what is left of the
\* schedule an earlier pass recorded.
M_ReconcileProvisionedAccumulates(stored, provider, newSecrets, calls, fault) ==
    LET rotationInterval == getRotationInterval(stored, provider)
        pending == IF IsSome(stored.Status.NextRotation)
                   THEN Get(stored.Status.NextRotation) - now ELSE 0
        s1 == [stored EXCEPT
                 !.Status.SecretRef =
                     Some([Kind |-> "Secret", Namespace |-> stored.Namespace,
                           Name |-> stored.Spec.SecretName]),
                 !.Status.LastRotation = Some(now),
                 !.Status.ProvisionedModels = stored.Spec.Models]
        s2 == IF Positive(rotationInterval)
              THEN [s1 EXCEPT !.Status.NextRotation =
                                  Some(now + Seconds(rotationInterval))]
              ELSE s1
        s3 == setCondition(s2, ConditionTypeCredentialProvisioned, ConditionTrue,
                           ReasonSecretCreated,
                           <<"Secret created/updated successfully">>, now)
        s4 == setCondition(s3, ConditionTypeReady, ConditionTrue,
                           ReasonCredentialProvisioned,
                           <<"Credentials provisioned and ready">>, now)
    IN  StatusUpdate(stored, s4, newSecrets, "Provisioned",
                     IF Positive(rotationInterval)
                     THEN Result(FALSE, Seconds(rotationInterval) + pending, FALSE)
                     ELSE Result(FALSE, pending, FALSE),
                     Append(calls, "getRotationInterval"),
                     IF fault = "StatusUpdate" THEN <<>>
                     ELSE <<Event("Normal", ReasonCredentialProvisioned)>>,
                     fault)

\* Lines 193-248: provisioning succeeded.
ReconcileProvisioned(stored, provider, newSecrets, calls, fault) ==
    LET rotationInterval == getRotationInterval(stored, provider)
        s1 == [stored EXCEPT
                 !.Status.SecretRef =
                     Some([Kind |-> "Secret", Namespace |-> stored.Namespace,
                           Name |-> stored.Spec.SecretName]),
                 !.Status.LastRotation = Some(now),
                 !.Status.ProvisionedModels = stored.Spec.Models]
        s2 == IF Positive(rotationInterval)
              THEN [s1 EXCEPT !.Status.NextRotation =
                                  Some(now + Seconds(rotationInterval))]
              ELSE s1
        s3 == setCondition(s2, ConditionTypeCredentialProvisioned, ConditionTrue,
                           ReasonSecretCreated,
                           <<"Secret created/updated successfully">>, now)
        s4 == setCondition(s3, ConditionTypeReady, ConditionTrue,
                           ReasonCredentialProvisioned,
                           <<"Credentials provisioned and ready">>, now)
    IN  StatusUpdate(stored, s4, newSecrets, "Provisioned",
                     IF Positive(rotationInterval)
                     THEN Result(FALSE, Seconds(rotationInterval), FALSE)
                     ELSE Result(FALSE, 0, FALSE),
                     Append(calls, "getRotationInterval"),
                     IF fault = "StatusUpdate" THEN <<>>
                     ELSE <<Event("Normal", ReasonCredentialProvisioned)>>,
                     fault)

\* Defect for C9: the failure branch sets Ready=False only and returns the
\* error without a requeue delay.
M_ReconcileProvisionFailed(stored, err, calls, fault) ==
    StatusUpdate(stored,
                 setCondition(stored, ConditionTypeReady, ConditionFalse,
                              ReasonReconciliationError,
                              <<"Failed to provision credentials: ">> \o err, now),
                 secrets, "ProvisionFailed", Result(FALSE, 0, TRUE), calls,
                 <<Event("Warning", ReasonSecretUpdateFailed)>>, fault)

\* Defect for C35: the failure branch sets CredentialProvisioned=False and
\* leaves Ready as it was.
M_ReconcileProvisionFailedKeepsReady(stored, err, calls, fault) ==
    StatusUpdate(stored,
                 setCondition(stored, ConditionTypeCredentialProvisioned,
                              ConditionFalse, ReasonSecretUpdateFailed, err, now),
                 secrets, "ProvisionFailed",
                 Result(FALSE, RequeueProvisionFailed, TRUE), calls,
                 <<Event("Warning", ReasonSecretUpdateFailed)>>, fault)

\* Lines 175-191: provisioning returned an error.
ReconcileProvisionFailed(stored, err, calls, fault) ==
    LET s1 == setCondition(stored, ConditionTypeReady, ConditionFalse,
                           ReasonReconciliationError,
                           <<"Failed to provision credentials: ">> \o err, now)
        s2 == setCondition(s1, ConditionTypeCredentialProvisioned, ConditionFalse,
                           ReasonSecretUpdateFailed, err, now)
    IN  StatusUpdate(stored, s2, secrets, "ProvisionFailed",
                     Result(FALSE, RequeueProvisionFailed, TRUE), calls,
                     <<Event("Warning", ReasonSecretUpdateFailed)>>, fault)

\* Defect for C11: an unsupported auth kind is answered like a permanent
\* rejection, without the bounded requeue.
M_ReconcileProvision(stored, provider, calls, fault) ==
    LET p == provisionAPIKeySecret(stored, provider, fault)
    IN  IF provider.Spec.Auth.Type # AuthTypeAPIKey
        THEN StatusUpdate(stored,
                 setCondition(stored, ConditionTypeReady, ConditionFalse,
                              ReasonAuthTypeNotSupported,
                              <<"Auth type ", provider.Spec.Auth.Type,
                                " not yet supported (MVP supports apiKey only)">>, now),
                 secrets, "AuthTypeNotSupported",
                 Result(FALSE, 0, FALSE), calls, <<>>, fault)
        ELSE IF IsSome(p.err)
        THEN ReconcileProvisionFailed(stored, Get(p.err),
                                      Append(calls, "provisionAPIKeySecret"), fault)
        ELSE ReconcileProvisioned(stored, provider, p.secrets,
                                  Append(calls, "provisionAPIKeySecret"), fault)

\* Lines 164-191: strategy selection and provisioning.
ReconcileProvision(stored, provider, calls, fault) ==
    LET p == provisionAPIKeySecret(stored, provider, fault)
    IN  IF provider.Spec.Auth.Type # AuthTypeAPIKey
        THEN StatusUpdate(stored,
                 setCondition(stored, ConditionTypeReady, ConditionFalse,
                              ReasonAuthTypeNotSupported,
                              <<"Auth type ", provider.Spec.Auth.Type,
                                " not yet supported (MVP supports apiKey only)">>, now),
                 secrets, "AuthTypeNotSupported",
                 Result(FALSE, RequeueAuthTypeNotSupported, FALSE), calls, <<>>, fault)
        ELSE IF IsSome(p.err)
        THEN ReconcileProvisionFailed(stored, Get(p.err),
                                      Append(calls, "provisionAPIKeySecret"), fault)
        ELSE ReconcileProvisioned(stored, provider, p.secrets,
                                  Append(calls, "provisionAPIKeySecret"), fault)

\* Defect for C3: the models are validated only after the secret was copied.
M_ReconcileValidate(stored, provider, calls, fault) ==
    LET ns == IF fault = "GetNamespace" \/ stored.Namespace \notin NamespaceNames
              THEN None ELSE namespaces[stored.Namespace]
        modelErr == validateModels(stored.Spec.Models, provider)
        p == provisionAPIKeySecret(stored, provider, fault)
    IN  IF ~isNamespaceAllowed(ns, provider)
        THEN StatusUpdate(stored,
                 setCondition(stored, ConditionTypeReady, ConditionFalse,
                              ReasonNamespaceNotAllowed,
                              <<"Namespace ", stored.Namespace,
                                " is not allowed by LLMProvider ", provider.Name>>, now),
                 secrets, "NamespaceNotAllowed", Result(FALSE, 0, FALSE),
                 Append(calls, "isNamespaceAllowed"),
                 <<Event("Warning", ReasonNamespaceNotAllowed)>>, fault)
        ELSE IF IsSome(modelErr)
        THEN StatusUpdate(stored,
                 setCondition(stored, ConditionTypeReady, ConditionFalse,
                              ReasonModelNotAllowed, Get(modelErr), now),
                 p.secrets, "ModelNotAllowed", Result(FALSE, 0, FALSE),
                 calls \o <<"isNamespaceAllowed", "validateModels">>,
                 <<Event("Warning", ReasonModelNotAllowed)>>, fault)
        ELSE ReconcileProvision(stored, provider,
                 calls \o <<"isNamespaceAllowed", "validateModels">>, fault)


\* Defect for C37: a rejected model also withdraws CredentialProvisioned.
M_ReconcileValidateWithdraws(stored, provider, calls, fault) ==
    LET ns == IF fault = "GetNamespace" \/ stored.Namespace \notin NamespaceNames
              THEN None ELSE namespaces[stored.Namespace]
        modelErr == validateModels(stored.Spec.Models, provider)
    IN  IF ~isNamespaceAllowed(ns, provider)
        THEN StatusUpdate(stored,
                 setCondition(stored, ConditionTypeReady, ConditionFalse,
                              ReasonNamespaceNotAllowed,
                              <<"Namespace ", stored.Namespace,
                                " is not allowed by LLMProvider ", provider.Name>>, now),
                 secrets, "NamespaceNotAllowed", Result(FALSE, 0, FALSE),
                 Append(calls, "isNamespaceAllowed"),
                 <<Event("Warning", ReasonNamespaceNotAllowed)>>, fault)
        ELSE IF IsSome(modelErr)
        THEN StatusUpdate(stored,
                 setCondition(
                     setCondition(stored, ConditionTypeReady, ConditionFalse,
                                  ReasonModelNotAllowed, Get(modelErr), now),
                     ConditionTypeCredentialProvisioned, ConditionFalse,
                     ReasonModelNotAllowed, Get(modelErr), now),
                 secrets, "ModelNotAllowed", Result(FALSE, 0, FALSE),
                 calls \o <<"isNamespaceAllowed", "validateModels">>,
                 <<Event("Warning", ReasonModelNotAllowed)>>, fault)
        ELSE ReconcileProvision(stored, provider,
                 calls \o <<"isNamespaceAllowed", "validateModels">>, fault)

\* Lines 135-162: the namespace and the model validation.
ReconcileValidate(stored, provider, calls, fault) ==
    LET ns == IF fault = "GetNamespace" \/ stored.Namespace \notin NamespaceNames
              THEN None ELSE namespaces[stored.Namespace]
        modelErr == validateModels(stored.Spec.Models, provider)
    IN  IF ~isNamespaceAllowed(ns, provider)
        THEN StatusUpdate(stored,
                 setCondition(stored, ConditionTypeReady, ConditionFalse,
                              ReasonNamespaceNotAllowed,
                              <<"Namespace ", stored.Namespace,
                                " is not allowed by LLMProvider ", provider.Name>>, now),
                 secrets, "NamespaceNotAllowed", Result(FALSE, 0, FALSE),
                 Append(calls, "isNamespaceAllowed"),
                 <<Event("Warning", ReasonNamespaceNotAllowed)>>, fault)
        ELSE IF IsSome(modelErr)
        THEN StatusUpdate(stored,
                 setCondition(stored, ConditionTypeReady, ConditionFalse,
                              ReasonModelNotAllowed, Get(modelErr), now),
                 secrets, "ModelNotAllowed", Result(FALSE, 0, FALSE),
                 calls \o <<"isNamespaceAllowed", "validateModels">>,
                 <<Event("Warning", ReasonModelNotAllowed)>>, fault)
        ELSE ReconcileProvision(stored, provider,
                 calls \o <<"isNamespaceAllowed", "validateModels">>, fault)

\* Defect for C7: a missing LLMProvider is treated like a permanent
\* rejection, without a requeue delay.
M_ReconcileProvider(stored, calls, fault) ==
    LET provider == GetProvider(stored.Spec.ProviderRef.Name)
    IN  IF fault = "GetProvider"
        THEN Outcome(Some(stored), secrets, "GetProviderFailed",
                     Result(FALSE, 0, TRUE), Append(calls, "GetProvider"), <<>>)
        ELSE IF ~IsSome(provider)
        THEN StatusUpdate(stored,
                 setCondition(stored, ConditionTypeReady, ConditionFalse,
                              ReasonProviderNotFound,
                              <<"LLMProvider ", stored.Spec.ProviderRef.Name,
                                " not found">>, now),
                 secrets, "ProviderNotFound", Result(FALSE, 0, FALSE),
                 Append(calls, "GetProvider"),
                 <<Event("Warning", ReasonProviderNotFound)>>, fault)
        ELSE ReconcileValidate(stored, Get(provider), Append(calls, "GetProvider"), fault)

\* Lines 117-133: the referenced LLMProvider.
ReconcileProvider(stored, calls, fault) ==
    LET provider == GetProvider(stored.Spec.ProviderRef.Name)
    IN  IF fault = "GetProvider"
        THEN Outcome(Some(stored), secrets, "GetProviderFailed",
                     Result(FALSE, 0, TRUE), Append(calls, "GetProvider"), <<>>)
        ELSE IF ~IsSome(provider)
        THEN StatusUpdate(stored,
                 setCondition(stored, ConditionTypeReady, ConditionFalse,
                              ReasonProviderNotFound,
                              <<"LLMProvider ", stored.Spec.ProviderRef.Name,
                                " not found">>, now),
                 secrets, "ProviderNotFound",
                 Result(FALSE, RequeueProviderNotFound, FALSE),
                 Append(calls, "GetProvider"),
                 <<Event("Warning", ReasonProviderNotFound)>>, fault)
        ELSE ReconcileValidate(stored, Get(provider), Append(calls, "GetProvider"), fault)

\* Defect for C36: a deleting grant without the finalizer goes on with the
\* business logic.
M_ReconcileDelete(stored, fault) ==
    LET removed == [stored EXCEPT !.Finalizers = @ \ {llmAccessFinalizer}]
    IN  IF llmAccessFinalizer \in stored.Finalizers
        THEN IF fault = "Update"
             THEN Outcome(Some(stored), secrets, "RemoveFinalizerFailed",
                          Result(FALSE, 0, TRUE), <<"Get", "RemoveFinalizer", "Update">>, <<>>)
             ELSE Outcome(IF removed.Finalizers = {} THEN None ELSE Some(removed),
                          secrets, "FinalizerRemoved", Result(FALSE, 0, FALSE),
                          <<"Get", "RemoveFinalizer", "Update">>, <<>>)
        ELSE ReconcileProvider(stored, <<"Get">>, fault)

\* Lines 96-106: deletion has been requested.  An object whose deletion
\* timestamp is set leaves the store with its last finalizer.
ReconcileDelete(stored, fault) ==
    LET removed == [stored EXCEPT !.Finalizers = @ \ {llmAccessFinalizer}]
    IN  IF llmAccessFinalizer \in stored.Finalizers
        THEN IF fault = "Update"
             THEN Outcome(Some(stored), secrets, "RemoveFinalizerFailed",
                          Result(FALSE, 0, TRUE), <<"Get", "RemoveFinalizer", "Update">>, <<>>)
             ELSE Outcome(IF removed.Finalizers = {} THEN None ELSE Some(removed),
                          secrets, "FinalizerRemoved", Result(FALSE, 0, FALSE),
                          <<"Get", "RemoveFinalizer", "Update">>, <<>>)
        ELSE Outcome(Some(stored), secrets, "Deleting", Result(FALSE, 0, FALSE),
                     <<"Get">>, <<>>)

\* Defect for C2: the pass that attaches the finalizer does not return but
\* goes on with the business logic.
M_ReconcileAddFinalizer(stored, fault) ==
    IF fault = "Update"
    THEN Outcome(Some(stored), secrets, "AddFinalizerFailed", Result(FALSE, 0, TRUE),
                 <<"Get", "AddFinalizer", "Update">>, <<>>)
    ELSE ReconcileProvider([stored EXCEPT !.Finalizers = @ \cup {llmAccessFinalizer}],
                           <<"Get", "AddFinalizer", "Update">>, fault)

\* Lines 108-115: the finalizer is attached in a pass of its own.
ReconcileAddFinalizer(stored, fault) ==
    IF fault = "Update"
    THEN Outcome(Some(stored), secrets, "AddFinalizerFailed", Result(FALSE, 0, TRUE),
                 <<"Get", "AddFinalizer", "Update">>, <<>>)
    ELSE Outcome(Some([stored EXCEPT !.Finalizers = @ \cup {llmAccessFinalizer}]),
                 secrets, "FinalizerAdded", Result(TRUE, 0, FALSE),
                 <<"Get", "AddFinalizer", "Update">>, <<>>)

\* Reconcile(ctx, req) for req = g, as the outcome of the whole pass
ReconcileOutcome(g, fault) ==
    IF ~IsSome(access[g])
    THEN Outcome(None, secrets, "NotFound", Result(FALSE, 0, FALSE), <<"Get">>, <<>>)
    ELSE IF IsSome(Get(access[g]).DeletionTimestamp)
    THEN ReconcileDelete(Get(access[g]), fault)
    ELSE IF llmAccessFinalizer \notin Get(access[g]).Finalizers
    THEN ReconcileAddFinalizer(Get(access[g]), fault)
    ELSE ReconcileProvider(Get(access[g]), <<"Get">>, fault)

\* One pass of the reconciler for the request g.  A fault is drawn only where
\* the failed API call changes what the pass does.  last.clean is what the
\* pass would have left in the store had no call failed.
Reconcile(g, fault) ==
    \E c \in {ReconcileOutcome(g, NoFault)} :
    \E o \in {IF fault = NoFault THEN c ELSE ReconcileOutcome(g, fault)} :
        /\ fault # NoFault => o # c
        /\ access' = [access EXCEPT ![g] = o.access]
        /\ secrets' = o.secrets
        /\ last' = [g |-> g, branch |-> o.branch, result |-> o.result,
                    calls |-> o.calls, events |-> o.events,
                    fault |-> fault,
                    pre |-> Some([access |-> access[g], secrets |-> secrets]),
                    clean |-> Some([access |-> c.access, secrets |-> c.secrets])]
        /\ UNCHANGED <<providers, namespaces, now, bench>>

\* ------------------------------------------------------------ environment
\* What the tenant and the platform operator put into the store.
ModelChoices == {<<"gpt-4o">>, <<"gpt-4o", "gpt-4-turbo">>}
AllowedModelChoices == {<<>>, <<"gpt-4o", "gpt-4o-mini">>, <<"gpt-4o-mini">>}
AccessRotationChoices ==
    {None, Some([Interval |-> <<>>]), Some([Interval |-> <<"6", "h">>]),
     Some([Interval |-> <<"7", "x">>])}
ProviderRotationChoices ==
    {Some([Enabled |-> TRUE, Interval |-> <<"7", "d">>, Strategy |-> "providerAPI"]),
     Some([Enabled |-> FALSE, Interval |-> <<"7", "d">>, Strategy |-> "providerAPI"])}
NamespaceLabelChoices ==
    {Label("ai-tier", "production"), Label("ai-tier", "development")}
NamespaceSelectorChoices ==
    {None, Some(LabelSelector(Label("ai-tier", "production"), <<>>))}
EndpointChoices == {None, Some([BaseURL |-> "https://llm.example/v1"])}
SourceDataChoices ==
    {Label(SourceSecretKey, "sk-test-key"), Label(SourceSecretKey, "sk-new-key"),
     Label("other-key", "sk-test-key")}

SourceSecretRef ==
    [Name |-> SourceSecretName, Namespace |-> ProviderNamespace, Key |-> SourceSecretKey]

APIKeyAuth(rotation) ==
    [Type |-> AuthTypeAPIKey,
     APIKey |-> Some([SecretRef |-> SourceSecretRef, Rotation |-> rotation]),
     ExternalSecret |-> None]

ExternalSecretAuth ==
    [Type |-> AuthTypeExternalSecret, APIKey |-> None,
     ExternalSecret |->
         Some([Store |-> [Name |-> "vault", Kind |-> "ClusterSecretStore"],
               RemoteRef |-> [Key |-> "llm/openai", Property |-> "api-key"],
               RefreshInterval |-> <<"1", "h">>])]

AuthChoices ==
    {APIKeyAuth(r) : r \in ProviderRotationChoices}
    \cup {[Type |-> AuthTypeAPIKey, APIKey |-> None, ExternalSecret |-> None],
          ExternalSecretAuth,
          [Type |-> AuthTypeWorkloadIdentity, APIKey |-> None, ExternalSecret |-> None]}

\* The LLMProvider and the LLMAccess of the controller's test suite.
TestProvider ==
    [Name |-> ProviderName,
     Spec |-> [Provider |-> "openai",
               Auth |-> APIKeyAuth(Some([Enabled |-> TRUE, Interval |-> <<"7", "d">>,
                                         Strategy |-> "providerAPI"])),
               AllowedModels |-> <<"gpt-4o", "gpt-4o-mini">>,
               NamespaceSelector |->
                   Some(LabelSelector(Label("ai-tier", "production"), <<>>)),
               Endpoint |-> None]]

NewAccess(name, models) ==
    [Name |-> name, Namespace |-> AccessNamespace, Generation |-> 1,
     Finalizers |-> {}, DeletionTimestamp |-> None,
     Spec |-> [ProviderRef |-> [Name |-> ProviderName], Models |-> models,
               SecretName |-> TargetSecretName, Rotation |-> None],
     Status |-> [Conditions |-> <<>>, SecretRef |-> None, LastRotation |-> None,
                 NextRotation |-> None, ProvisionedModels |-> <<>>]]

Init ==
    /\ \E models \in ModelChoices :
          access = [g \in Grants |->
                       IF g = "chatbot-access" THEN Some(NewAccess(g, models)) ELSE None]
    /\ providers \in [ProviderNames -> {None, Some(TestProvider)}]
    /\ namespaces = [n \in NamespaceNames |->
                        Some([Name |-> n, Labels |-> Label("ai-tier", "production")])]
    /\ secrets = [k \in SecretKeys |->
                     IF k = SourceKey
                     THEN Some([EmptySecret EXCEPT
                                  !.Data = Label(SourceSecretKey, "sk-test-key")])
                     ELSE None]
    /\ now = 0
    /\ last = NoPass
    /\ bench = NoBench

Edit == /\ now < MaxEvents
        /\ now' = now + 1
        /\ last' = NoPass
        /\ UNCHANGED bench

\* The tenant edits the grant's models or its rotation override.
EditAccess(g) ==
    /\ IsSome(access[g])
    /\ ~IsSome(Get(access[g]).DeletionTimestamp)
    /\ \E spec \in
          {[Get(access[g]).Spec EXCEPT !.Models = m] : m \in ModelChoices}
          \cup {[Get(access[g]).Spec EXCEPT !.Rotation = r] : r \in AccessRotationChoices} :
          /\ spec # Get(access[g]).Spec
          /\ access' = [access EXCEPT ![g] =
                           Some([Get(@) EXCEPT !.Spec = spec, !.Generation = @ + 1])]
    /\ Edit
    /\ UNCHANGED <<providers, namespaces, secrets>>

\* The tenant deletes the grant: with a finalizer the store only marks it.
DeleteAccess(g) ==
    /\ IsSome(access[g])
    /\ ~IsSome(Get(access[g]).DeletionTimestamp)
    /\ access' = [access EXCEPT ![g] =
                     IF Get(@).Finalizers = {} THEN None
                     ELSE Some([Get(@) EXCEPT !.DeletionTimestamp = Some(now)])]
    /\ Edit
    /\ UNCHANGED <<providers, namespaces, secrets>>

\* The platform operator creates, deletes or edits the declaration.
EditProvider(p) ==
    /\ \E new \in
          IF ~IsSome(providers[p]) THEN {Some(TestProvider)}
          ELSE {None}
               \cup {Some([Get(providers[p]) EXCEPT !.Spec.AllowedModels = a]) :
                        a \in AllowedModelChoices}
               \cup {Some([Get(providers[p]) EXCEPT !.Spec.NamespaceSelector = x]) :
                        x \in NamespaceSelectorChoices}
               \cup {Some([Get(providers[p]) EXCEPT !.Spec.Auth = a]) : a \in AuthChoices}
               \cup {Some([Get(providers[p]) EXCEPT !.Spec.Endpoint = e]) :
                        e \in EndpointChoices} :
          /\ new # providers[p]
          /\ providers' = [providers EXCEPT ![p] = new]
    /\ Edit
    /\ UNCHANGED <<access, namespaces, secrets>>

\* The labels of the grant's namespace change.
LabelNamespace(n) ==
    /\ \E l \in NamespaceLabelChoices :
          /\ l # Get(namespaces[n]).Labels
          /\ namespaces' = [namespaces EXCEPT ![n] = Some([Get(@) EXCEPT !.Labels = l])]
    /\ Edit
    /\ UNCHANGED <<access, providers, secrets>>

\* The platform operator replaces or deletes the master secret.
EditSourceSecret ==
    /\ \E new \in {None} \cup {Some([EmptySecret EXCEPT !.Data = d]) : d \in SourceDataChoices} :
          /\ new # secrets[SourceKey]
          /\ secrets' = [secrets EXCEPT ![SourceKey] = new]
    /\ Edit
    /\ UNCHANGED <<access, providers, namespaces>>

\* The garbage collector removes a Secret all of whose owners are gone.
GarbageCollect(k) ==
    /\ IsSome(secrets[k])
    /\ Get(secrets[k]).OwnerReferences # {}
    /\ \A r \in Get(secrets[k]).OwnerReferences : ~IsSome(access[r.Name])
    /\ secrets' = [secrets EXCEPT ![k] = None]
    /\ last' = NoPass
    /\ UNCHANGED <<access, providers, namespaces, now, bench>>

\* Time passes and nothing else changes.
Tick ==
    /\ Edit
    /\ UNCHANGED <<access, providers, namespaces, secrets>>

Next ==
    \/ \E g \in Requests : \E fault \in Faults \cup {NoFault} : Reconcile(g, fault)
    \/ \E g \in Grants : EditAccess(g)
    \/ \E g \in Grants : DeleteAccess(g)
    \/ \E p \in ProviderNames : EditProvider(p)
    \/ \E n \in NamespaceNames : LabelNamespace(n)
    \/ EditSourceSecret
    \/ \E k \in SecretKeys : GarbageCollect(k)
    \/ Tick

Spec == Init /\ [][Next]_vars

\* The same program on a grant that carries the finalizer of a foreground
\* deletion, which the reconciler does not remove.
ForeignFinalizer == "foregroundDeletion"
InitDeletion ==
    /\ \E models \in ModelChoices :
          access = [g \in Grants |->
                       IF g = "chatbot-access"
                       THEN Some([NewAccess(g, models) EXCEPT
                                    !.Finalizers = {ForeignFinalizer}])
                       ELSE None]
    /\ providers = [p \in ProviderNames |-> Some(TestProvider)]
    /\ namespaces = [n \in NamespaceNames |->
                        Some([Name |-> n, Labels |-> Label("ai-tier", "production")])]
    /\ secrets = [k \in SecretKeys |->
                     IF k = SourceKey
                     THEN Some([EmptySecret EXCEPT
                                  !.Data = Label(SourceSecretKey, "sk-test-key")])
                     ELSE None]
    /\ now = 0
    /\ last = NoPass
    /\ bench = NoBench

\* The foreground deletion ends: its finalizer is taken off the deleting
\* grant, which is gone with its last finalizer.
FinishForegroundDeletion(g) ==
    /\ IsSome(access[g])
    /\ IsSome(Get(access[g]).DeletionTimestamp)
    /\ ForeignFinalizer \in Get(access[g]).Finalizers
    /\ access' = [access EXCEPT ![g] =
                     IF Get(@).Finalizers = {ForeignFinalizer} THEN None
                     ELSE Some([Get(@) EXCEPT !.Finalizers = @ \ {ForeignFinalizer}])]
    /\ last' = NoPass
    /\ UNCHANGED <<providers, namespaces, secrets, now, bench>>

NextDeletion ==
    \/ Next
    \/ \E g \in Grants : FinishForegroundDeletion(g)

SpecDeletion == InitDeletion /\ [][NextDeletion]_vars

\* The same program with two grants of one namespace that name the same
\* secretName, both reconciled.
InitTwoGrants ==
    /\ access = [g \in Grants |-> Some(NewAccess(g, <<"gpt-4o">>))]
    /\ providers = [p \in ProviderNames |-> Some(TestProvider)]
    /\ namespaces = [n \in NamespaceNames |->
                        Some([Name |-> n, Labels |-> Label("ai-tier", "production")])]
    /\ secrets = [k \in SecretKeys |->
                     IF k = SourceKey
                     THEN Some([EmptySecret EXCEPT
                                  !.Data = Label(SourceSecretKey, "sk-test-key")])
                     ELSE None]
    /\ now = 0
    /\ last = NoPass
    /\ bench = NoBench

NextTwoGrants ==
    \/ \E g \in Grants : \E fault \in Faults \cup {NoFault} : Reconcile(g, fault)
    \/ \E g \in Grants : DeleteAccess(g)
    \/ \E k \in SecretKeys : GarbageCollect(k)

SpecTwoGrants == InitTwoGrants /\ [][NextTwoGrants]_vars

\* The garbage collector gets to every object whose owners are gone.
Fairness == \A k \in SecretKeys : WF_vars(GarbageCollect(k))
SpecFair == Spec /\ Fairness


\* ------------------------------------------- the duration functions alone
\* parseDuration and getRotationInterval applied to arguments of their own,
\* against an empty store.
EmptyStore ==
    /\ access = [g \in Grants |-> None]
    /\ providers = [p \in ProviderNames |-> None]
    /\ namespaces = [n \in NamespaceNames |-> None]
    /\ secrets = [k \in SecretKeys |-> None]
    /\ now = 0
    /\ last = NoPass

DurationAlphabet == {"0", "1", "7", "d", "h", "m", "x"}
DurationSamples ==
    {<<"2", "4", "h">>, <<"3", "0", "m">>, <<"i", "n", "v", "a", "l", "i", "d">>,
     <<"3", "6", "5", "d">>, <<"3", "6", "6", "d">>, <<"8", "7", "6", "1", "h">>,
     <<"1", "0", "6", "7", "5", "1", "d">>, <<"1", "0", "6", "7", "5", "2", "d">>,
     <<"2", "1", "3", "5", "0", "4", "d">>,
     <<"9", "2", "2", "3", "3", "7", "2", "0", "3", "6", "8", "5", "4", "7", "7",
       "5", "8", "0", "7", "m">>,
     <<"9", "2", "2", "3", "3", "7", "2", "0", "3", "6", "8", "5", "4", "7", "7",
       "5", "8", "0", "8", "m">>}
DurationStrings ==
    UNION {[1..k -> DurationAlphabet] : k \in 0..MaxLen} \cup DurationSamples

OverrideChoices ==
    {None}
    \cup {Some([Interval |-> i]) :
             i \in {<<>>, <<"6", "h">>, <<"0", "h">>, <<"7", "x">>, <<"h">>, <<"6">>,
                    <<"3", "0", "m">>}}
DeclaredRotationChoices ==
    {None}
    \cup {Some([Enabled |-> e, Interval |-> i, Strategy |-> "providerAPI"]) :
             e \in BOOLEAN,
             i \in {<<>>, <<"2", "4", "h">>, <<"7", "d">>, <<"7", "x">>}}
DeclaredAuthChoices ==
    {APIKeyAuth(r) : r \in DeclaredRotationChoices} \cup {ExternalSecretAuth}

RefreshIntervalChoices ==
    {<<>>, <<"2", "4", "h">>, <<"1", "h">>, <<"7", "d">>, <<"3", "0", "s">>,
     <<"7", "x">>}

InitDuration ==
    /\ EmptyStore
    /\ \/ \E s \in DurationStrings :
             bench = [fn |-> "parseDuration", s |-> s, out |-> None]
       \/ \E o \in OverrideChoices : \E a \in DeclaredAuthChoices :
             bench = [fn |-> "getRotationInterval",
                      llmAccess |-> [NewAccess("chatbot-access", <<"gpt-4o">>)
                                       EXCEPT !.Spec.Rotation = o],
                      provider |-> [TestProvider EXCEPT !.Spec.Auth = a],
                      out |-> None]
       \/ \E o \in OverrideChoices : \E i \in RefreshIntervalChoices :
             bench = [fn |-> "effectiveRefreshInterval",
                      llmAccess |-> [NewAccess("chatbot-access", <<"gpt-4o">>)
                                       EXCEPT !.Spec.Rotation = o],
                      providerInterval |-> i,
                      out |-> None]

CallParseDuration ==
    /\ bench.fn = "parseDuration"
    /\ ~IsSome(bench.out)
    /\ bench' = [bench EXCEPT !.out = Some(parseDuration(bench.s))]
    /\ UNCHANGED <<access, providers, namespaces, secrets, now, last>>

CallGetRotationInterval ==
    /\ bench.fn = "getRotationInterval"
    /\ ~IsSome(bench.out)
    /\ bench' = [bench EXCEPT
                   !.out = Some(getRotationInterval(bench.llmAccess, bench.provider))]
    /\ UNCHANGED <<access, providers, namespaces, secrets, now, last>>

\* The refresh interval and the rotation interval resolved from the same
\* grant, for a declaration that carries the interval as refreshInterval
\* resp. as the interval of an enabled apiKey rotation
CallEffectiveRefreshInterval ==
    /\ bench.fn = "effectiveRefreshInterval"
    /\ ~IsSome(bench.out)
    /\ bench' = [bench EXCEPT
                   !.out = Some([refresh |->
                                    effectiveRefreshInterval(bench.llmAccess,
                                                             bench.providerInterval),
                                 rotation |->
                                    getRotationInterval(bench.llmAccess,
                                        [TestProvider EXCEPT !.Spec.Auth =
                                            APIKeyAuth(Some([Enabled |-> TRUE,
                                                Interval |-> bench.providerInterval,
                                                Strategy |-> "providerAPI"]))])])]
    /\ UNCHANGED <<access, providers, namespaces, secrets, now, last>>

NextDuration ==
    CallParseDuration \/ CallGetRotationInterval \/ CallEffectiveRefreshInterval

SpecDuration == InitDuration /\ [][NextDuration]_vars

\* ------------------------------------------ ApiKeyProvisioner.Provision
\* Defect for C19: the copy is written without an owner reference.
M_ApiKeyMutate(targetSecret, apiKeyData, provider, llmAccess) ==
    LET baseUrl ==
            IF IsSome(provider.Spec.Endpoint) /\ Get(provider.Spec.Endpoint).BaseURL # ""
            THEN Label("baseUrl", Get(provider.Spec.Endpoint).BaseURL)
            ELSE NoLabels
        stringData == MergeStringData(baseUrl, Label("provider", provider.Spec.Provider))
        labels == [k \in {"llmwarden.io/managed-by", "llmwarden.io/provider",
                          "llmwarden.io/access", "llmwarden.io/auth-type"} |->
                      CASE k = "llmwarden.io/managed-by" -> "llmwarden"
                        [] k = "llmwarden.io/provider" -> provider.Name
                        [] k = "llmwarden.io/access" -> llmAccess.Name
                        [] k = "llmwarden.io/auth-type" -> provider.Spec.Auth.Type]
    IN  [targetSecret EXCEPT
           !.Data = MergeStringData(MergeStringData(@, Label("apiKey", apiKeyData)),
                                    stringData),
           !.Labels = MergeStringData(@, labels)]

\* The mutate function ApiKeyProvisioner.Provision hands to CreateOrUpdate,
\* with StringData folded into Data as the API server stores it.  The type
\* it sets, Opaque, is the one a Secret has anyway.
ApiKeyMutate(targetSecret, apiKeyData, provider, llmAccess) ==
    LET owned == SetControllerReference(llmAccess.Name, targetSecret)
        secretData == Label("apiKey", apiKeyData)
        baseUrl ==
            IF IsSome(provider.Spec.Endpoint) /\ Get(provider.Spec.Endpoint).BaseURL # ""
            THEN Label("baseUrl", Get(provider.Spec.Endpoint).BaseURL)
            ELSE NoLabels
        stringData == MergeStringData(baseUrl, Label("provider", provider.Spec.Provider))
        labels == [k \in {"llmwarden.io/managed-by", "llmwarden.io/provider",
                          "llmwarden.io/access", "llmwarden.io/auth-type"} |->
                      CASE k = "llmwarden.io/managed-by" -> "llmwarden"
                        [] k = "llmwarden.io/provider" -> provider.Name
                        [] k = "llmwarden.io/access" -> llmAccess.Name
                        [] k = "llmwarden.io/auth-type" -> provider.Spec.Auth.Type]
    IN  [owned EXCEPT
           !.Data = MergeStringData(MergeStringData(@, secretData), stringData),
           !.Labels = MergeStringData(@, labels)]

\* The keys of the ProvisionResult of the Direct-Copy strategy
ApiKeySecretKeys(provider) ==
    <<"apiKey">>
    \o (IF IsSome(provider.Spec.Endpoint) /\ Get(provider.Spec.Endpoint).BaseURL # ""
        THEN <<"baseUrl">> ELSE <<>>)
    \o <<"provider">>

\* Defect for C21: the sub-key is read from the master secret without the
\* check that it is there, and an empty value is copied.
M_ApiKeyProvisioner_Provision(provider, llmAccess, fault) ==
    LET apiKey == Get(provider.Spec.Auth.APIKey)
        sourceKey == <<apiKey.SecretRef.Namespace, apiKey.SecretRef.Name>>
        sourceSecret == IF sourceKey \in SecretKeys THEN secrets[sourceKey] ELSE None
        secretKey == apiKey.SecretRef.Key
        apiKeyData == IF secretKey \in DOMAIN Get(sourceSecret).Data
                      THEN Get(sourceSecret).Data[secretKey] ELSE ""
        targetKey == <<llmAccess.Namespace, llmAccess.Spec.SecretName>>
        existing == secrets[targetKey]
        targetSecret == IF IsSome(existing) THEN Get(existing) ELSE EmptySecret
        Fail(msg) == [err |-> Some(msg), secrets |-> secrets, result |-> None]
    IN  IF ~IsSome(provider.Spec.Auth.APIKey)
        THEN Fail(<<"provider ", provider.Name, " does not have apiKey configuration">>)
        ELSE IF ~IsSome(sourceSecret)
        THEN Fail(<<"provider secret ", sourceKey[1], "/", sourceKey[2],
                    " not found: ", "not found">>)
        ELSE IF AlreadyOwned(targetSecret, llmAccess.Name)
        THEN Fail(<<"failed to create/update secret: ",
                    "failed to set owner reference: ", "already owned">>)
        ELSE IF fault
        THEN Fail(<<"failed to create/update secret: ", "api error">>)
        ELSE [err |-> None,
              secrets |-> [secrets EXCEPT ![targetKey] =
                  Some(ApiKeyMutate(targetSecret, apiKeyData, provider, llmAccess))],
              result |-> Some([SecretName |-> llmAccess.Spec.SecretName,
                               SecretNamespace |-> llmAccess.Namespace,
                               SecretKeys |-> ApiKeySecretKeys(provider)])]

\* ApiKeyProvisioner.Provision = [err, secrets, result]; fault: the write of
\* the target Secret fails at the API server.
ApiKeyProvisioner_Provision(provider, llmAccess, fault) ==
    LET apiKey == Get(provider.Spec.Auth.APIKey)
        sourceKey == <<apiKey.SecretRef.Namespace, apiKey.SecretRef.Name>>
        sourceSecret == IF sourceKey \in SecretKeys THEN secrets[sourceKey] ELSE None
        secretKey == apiKey.SecretRef.Key
        targetKey == <<llmAccess.Namespace, llmAccess.Spec.SecretName>>
        existing == secrets[targetKey]
        targetSecret == IF IsSome(existing) THEN Get(existing) ELSE EmptySecret
        Fail(msg) == [err |-> Some(msg), secrets |-> secrets, result |-> None]
    IN  IF ~IsSome(provider.Spec.Auth.APIKey)
        THEN Fail(<<"provider ", provider.Name, " does not have apiKey configuration">>)
        ELSE IF ~IsSome(sourceSecret)
        THEN Fail(<<"provider secret ", sourceKey[1], "/", sourceKey[2],
                    " not found: ", "not found">>)
        ELSE IF secretKey \notin DOMAIN Get(sourceSecret).Data
        THEN Fail(<<"key ", secretKey, " not found in secret ",
                    sourceKey[1], "/", sourceKey[2]>>)
        ELSE IF AlreadyOwned(targetSecret, llmAccess.Name)
        THEN Fail(<<"failed to create/update secret: ",
                    "failed to set owner reference: ", "already owned">>)
        ELSE IF fault
        THEN Fail(<<"failed to create/update secret: ", "api error">>)
        ELSE [err |-> None,
              secrets |-> [secrets EXCEPT ![targetKey] =
                  Some(ApiKeyMutate(targetSecret, Get(sourceSecret).Data[secretKey],
                                    provider, llmAccess))],
              result |-> Some([SecretName |-> llmAccess.Spec.SecretName,
                               SecretNamespace |-> llmAccess.Namespace,
                               SecretKeys |-> ApiKeySecretKeys(provider)])]

\* ----------------------------------- ExternalSecretProvisioner.Provision
standardLabels(provider, llmAccess) ==
    [k \in {"llmwarden.io/managed-by", "llmwarden.io/provider",
            "llmwarden.io/access", "llmwarden.io/auth-type"} |->
        CASE k = "llmwarden.io/managed-by" -> "llmwarden"
          [] k = "llmwarden.io/provider" -> provider.Name
          [] k = "llmwarden.io/access" -> llmAccess.Name
          [] k = "llmwarden.io/auth-type" -> provider.Spec.Auth.Type]

\* V1Beta1Adapter.buildSpec: the spec map of the ExternalSecret; remoteRef
\* carries a property only when one is configured
buildSpec(spec) ==
    [refreshInterval |-> spec.RefreshInterval,
     secretStoreRef |-> [name |-> spec.StoreRef.Name, kind |-> spec.StoreRef.Kind],
     target |-> [name |-> spec.Target.Name,
                 creationPolicy |-> spec.Target.CreationPolicy],
     data |-> [i \in 1..Len(spec.Data) |->
                  [secretKey |-> spec.Data[i].SecretKey,
                   remoteRef |->
                       IF spec.Data[i].RemoteRef.Property # ""
                       THEN [key |-> spec.Data[i].RemoteRef.Key,
                             property |-> spec.Data[i].RemoteRef.Property]
                       ELSE [key |-> spec.Data[i].RemoteRef.Key]]]]

\* An ExternalSecret that does not exist yet, as CreateOrUpdate hands it to
\* the mutate function; status is what the operator of the store reports.
EmptyExternalSecret ==
    [Labels |-> NoLabels, OwnerReferences |-> {}, spec |-> None, status |-> None]

\* Defect for C18: the ExternalSecret is written with Create, which fails on
\* an object that is already there.
M_ExternalSecretProvisioner_Provision(provider, llmAccess, externalSecrets, fault) ==
    LET esoConfig == Get(provider.Spec.Auth.ExternalSecret)
        refreshInterval == effectiveRefreshInterval(llmAccess, esoConfig.RefreshInterval)
        spec == [RefreshInterval |-> refreshInterval,
                 StoreRef |-> [Name |-> esoConfig.Store.Name,
                               Kind |-> esoConfig.Store.Kind],
                 Target |-> [Name |-> llmAccess.Spec.SecretName,
                             CreationPolicy |-> "Owner"],
                 Data |-> <<[SecretKey |-> "apiKey",
                             RemoteRef |-> [Key |-> esoConfig.RemoteRef.Key,
                                            Property |-> esoConfig.RemoteRef.Property]]>>]
        esKey == <<llmAccess.Namespace, llmAccess.Spec.SecretName>>
        created == SetControllerReference(llmAccess.Name,
                       [EmptyExternalSecret EXCEPT
                          !.Labels = standardLabels(provider, llmAccess),
                          !.spec = Some(buildSpec(spec))])
        Fail(msg) == [err |-> Some(msg), externalSecrets |-> externalSecrets,
                      result |-> None]
    IN  IF ~IsSome(provider.Spec.Auth.ExternalSecret)
        THEN Fail(<<"provider ", provider.Name,
                    " does not have externalSecret configuration">>)
        ELSE IF IsSome(externalSecrets[esKey])
        THEN Fail(<<"failed to create ExternalSecret ", esKey[1], "/", esKey[2],
                    ": ", "already exists">>)
        ELSE IF fault
        THEN Fail(<<"failed to create ExternalSecret ", esKey[1], "/", esKey[2],
                    ": ", "api error">>)
        ELSE [err |-> None,
              externalSecrets |-> [externalSecrets EXCEPT ![esKey] = Some(created)],
              result |-> Some([SecretName |-> llmAccess.Spec.SecretName,
                               SecretNamespace |-> llmAccess.Namespace,
                               SecretKeys |-> <<"apiKey">>])]

\* ExternalSecretProvisioner.Provision = [err, externalSecrets, result] on
\* the ExternalSecrets of the store
ExternalSecretProvisioner_Provision(provider, llmAccess, externalSecrets, fault) ==
    LET esoConfig == Get(provider.Spec.Auth.ExternalSecret)
        refreshInterval == effectiveRefreshInterval(llmAccess, esoConfig.RefreshInterval)
        spec == [RefreshInterval |-> refreshInterval,
                 StoreRef |-> [Name |-> esoConfig.Store.Name,
                               Kind |-> esoConfig.Store.Kind],
                 Target |-> [Name |-> llmAccess.Spec.SecretName,
                             CreationPolicy |-> "Owner"],
                 Data |-> <<[SecretKey |-> "apiKey",
                             RemoteRef |-> [Key |-> esoConfig.RemoteRef.Key,
                                            Property |-> esoConfig.RemoteRef.Property]]>>]
        labels == standardLabels(provider, llmAccess)
        esKey == <<llmAccess.Namespace, llmAccess.Spec.SecretName>>
        found == externalSecrets[esKey]
        existing == IF IsSome(found) THEN Get(found) ELSE EmptyExternalSecret
        mutated == SetControllerReference(llmAccess.Name,
                       [existing EXCEPT !.Labels = MergeStringData(@, labels),
                                        !.spec = Some(buildSpec(spec))])
        Fail(msg) == [err |-> Some(msg), externalSecrets |-> externalSecrets,
                      result |-> None]
    IN  IF ~IsSome(provider.Spec.Auth.ExternalSecret)
        THEN Fail(<<"provider ", provider.Name,
                    " does not have externalSecret configuration">>)
        ELSE IF AlreadyOwned(existing, llmAccess.Name)
        THEN Fail(<<"failed to create/update ExternalSecret ", esKey[1], "/", esKey[2],
                    ": ", "already owned">>)
        ELSE IF fault
        THEN Fail(<<"failed to create/update ExternalSecret ", esKey[1], "/", esKey[2],
                    ": ", "api error">>)
        ELSE [err |-> None,
              externalSecrets |-> [externalSecrets EXCEPT ![esKey] = Some(mutated)],
              result |-> Some([SecretName |-> llmAccess.Spec.SecretName,
                               SecretNamespace |-> llmAccess.Namespace,
                               SecretKeys |-> <<"apiKey">>])]

\* ------------------------------------------------------------- Cleanup
\* Defect for C23: not-found is passed on as an error like any other
\* failure of the delete.
M_ApiKeyProvisioner_Cleanup(provider, llmAccess, fault) ==
    LET key == <<llmAccess.Namespace, llmAccess.Spec.SecretName>>
    IN  IF fault
        THEN [err |-> Some(<<"failed to delete secret: ", "api error">>),
              secrets |-> secrets]
        ELSE IF ~IsSome(secrets[key])
        THEN [err |-> Some(<<"failed to delete secret: ", "not found">>),
              secrets |-> secrets]
        ELSE [err |-> None, secrets |-> [secrets EXCEPT ![key] = None]]

\* ApiKeyProvisioner.Cleanup = [err, secrets]: client.Delete of the Secret
\* at the artifact's name; not-found is success.  fault: the delete fails
\* for another reason.
ApiKeyProvisioner_Cleanup(provider, llmAccess, fault) ==
    LET key == <<llmAccess.Namespace, llmAccess.Spec.SecretName>>
    IN  IF fault
        THEN [err |-> Some(<<"failed to delete secret: ", "api error">>),
              secrets |-> secrets]
        ELSE [err |-> None, secrets |-> [secrets EXCEPT ![key] = None]]

\* ExternalSecretProvisioner.Cleanup = [err, externalSecrets]
ExternalSecretProvisioner_Cleanup(provider, llmAccess, externalSecrets, fault) ==
    LET key == <<llmAccess.Namespace, llmAccess.Spec.SecretName>>
    IN  IF fault
        THEN [err |-> Some(<<"failed to delete ExternalSecret ", key[1], "/", key[2],
                             ": ", "api error">>),
              externalSecrets |-> externalSecrets]
        ELSE [err |-> None,
              externalSecrets |-> [externalSecrets EXCEPT ![key] = None]]

\* --------------------------------------------------------- HealthCheck
HealthCheckResult(healthy, message, warnings) ==
    [Healthy |-> healthy, Message |-> message, Warnings |-> warnings]

HealthFaults == {"none", "GetTarget", "GetSource"}

\* Defect for C24: a master secret that cannot be read makes the result
\* unhealthy.
M_ApiKeyProvisioner_HealthCheck(provider, llmAccess, fault, old) ==
    LET targetSecret == secrets[<<llmAccess.Namespace, llmAccess.Spec.SecretName>>]
        apiKey == Get(provider.Spec.Auth.APIKey)
        sourceKey == <<apiKey.SecretRef.Namespace, apiKey.SecretRef.Name>>
        sourceFound == /\ fault # "GetSource"
                       /\ sourceKey \in SecretKeys
                       /\ IsSome(secrets[sourceKey])
        Read(err, result) == [err |-> err, result |-> result, secrets |-> secrets]
    IN  IF fault = "GetTarget"
        THEN Read(Some(<<"failed to get secret: ", "api error">>), None)
        ELSE IF ~IsSome(targetSecret)
        THEN Read(None, Some(HealthCheckResult(FALSE, "Secret not found", <<>>)))
        ELSE IF "apiKey" \notin DOMAIN Get(targetSecret).Data
        THEN Read(None, Some(HealthCheckResult(FALSE, "API key not found in secret",
                                              <<>>)))
        ELSE IF IsSome(provider.Spec.Auth.APIKey) /\ ~sourceFound
        THEN Read(None, Some(HealthCheckResult(FALSE, "Source secret not accessible",
                                              <<>>)))
        ELSE Read(None, Some(HealthCheckResult(TRUE,
                                "Secret exists and contains valid API key", <<>>)))

\* ApiKeyProvisioner.HealthCheck = [err, result, secrets]: it only reads, the
\* Secrets come back as they were.  fault: which read fails for a reason
\* other than not-found; old: the Secret is older than 25 days.
ApiKeyProvisioner_HealthCheck(provider, llmAccess, fault, old) ==
    LET targetSecret == secrets[<<llmAccess.Namespace, llmAccess.Spec.SecretName>>]
        apiKey == Get(provider.Spec.Auth.APIKey)
        sourceKey == <<apiKey.SecretRef.Namespace, apiKey.SecretRef.Name>>
        sourceFound == /\ fault # "GetSource"
                       /\ sourceKey \in SecretKeys
                       /\ IsSome(secrets[sourceKey])
        w1 == IF IsSome(provider.Spec.Auth.APIKey) /\ ~sourceFound
              THEN <<<<"Source secret ", sourceKey[1], "/", sourceKey[2],
                       " not accessible">>>>
              ELSE <<>>
        w2 == IF /\ IsSome(provider.Spec.Auth.APIKey)
                 /\ IsSome(apiKey.Rotation)
                 /\ Get(apiKey.Rotation).Enabled
                 /\ old
              THEN Append(w1, <<"Secret is nearing rotation interval">>)
              ELSE w1
        Read(err, result) == [err |-> err, result |-> result, secrets |-> secrets]
    IN  IF fault = "GetTarget"
        THEN Read(Some(<<"failed to get secret: ", "api error">>), None)
        ELSE IF ~IsSome(targetSecret)
        THEN Read(None, Some(HealthCheckResult(FALSE, "Secret not found", <<>>)))
        ELSE IF "apiKey" \notin DOMAIN Get(targetSecret).Data
        THEN Read(None, Some(HealthCheckResult(FALSE, "API key not found in secret",
                                              <<>>)))
        ELSE Read(None, Some(HealthCheckResult(TRUE,
                                "Secret exists and contains valid API key", w2)))

\* ------------------------------------------------------ ParseSyncStatus
\* The status of an unstructured ExternalSecret: None (no status), or a
\* record whose conditions are None (no such field), NotASlice, or
\* Slice(entries); an entry is NotAMap or a map from field names to values,
\* a value being a string (Str) or something else (NotAString).
NotASlice == [isSlice |-> FALSE, items |-> <<>>]
Slice(items) == [isSlice |-> TRUE, items |-> items]
NotAMap == [isMap |-> FALSE, fields |-> NoLabels]
NotAString == [isString |-> FALSE, s |-> ""]
Str(x) == [isString |-> TRUE, s |-> x]
SyncCondition(type, status, message) ==
    [isMap |-> TRUE,
     fields |-> [k \in {"type", "status", "message"} |->
                    CASE k = "type" -> type [] k = "status" -> status
                      [] k = "message" -> message]]

\* v, _ := condMap[key].(string)
StringField(condMap, key) ==
    IF key \in DOMAIN condMap.fields /\ condMap.fields[key].isString
    THEN condMap.fields[key].s ELSE ""

SyncStatus(ready, message) == [Ready |-> ready, Message |-> message]

\* Defect for C26: any Ready condition with status True counts, not the
\* first one.
M_ParseSyncStatus(obj) ==
    IF ~IsSome(obj)
    THEN SyncStatus(FALSE, "ExternalSecret is nil")
    ELSE IF \/ ~IsSome(Get(obj).status)
            \/ ~IsSome(Get(Get(obj).status).conditions)
            \/ ~Get(Get(Get(obj).status).conditions).isSlice
    THEN SyncStatus(FALSE, "no status conditions yet; ESO may still be syncing")
    ELSE LET conditions == Get(Get(Get(obj).status).conditions).items
             ready == {i \in 1..Len(conditions) :
                          /\ conditions[i].isMap
                          /\ StringField(conditions[i], "type") = "Ready"}
             true == {i \in ready : StringField(conditions[i], "status") = "True"}
         IN  IF ready = {}
             THEN SyncStatus(FALSE, "Ready condition not found in ExternalSecret status")
             ELSE IF true = {}
             THEN SyncStatus(FALSE,
                      StringField(conditions[CHOOSE i \in ready : TRUE], "message"))
             ELSE SyncStatus(TRUE,
                      StringField(conditions[CHOOSE i \in true : TRUE], "message"))

\* V1Beta1Adapter.ParseSyncStatus; obj is None for a nil pointer
ParseSyncStatus(obj) ==
    IF ~IsSome(obj)
    THEN SyncStatus(FALSE, "ExternalSecret is nil")
    ELSE IF \/ ~IsSome(Get(obj).status)
            \/ ~IsSome(Get(Get(obj).status).conditions)
            \/ ~Get(Get(Get(obj).status).conditions).isSlice
    THEN SyncStatus(FALSE, "no status conditions yet; ESO may still be syncing")
    ELSE LET conditions == Get(Get(Get(obj).status).conditions).items
             ready == {i \in 1..Len(conditions) :
                          /\ conditions[i].isMap
                          /\ StringField(conditions[i], "type") = "Ready"}
         IN  IF ready = {}
             THEN SyncStatus(FALSE, "Ready condition not found in ExternalSecret status")
             ELSE LET first == CHOOSE i \in ready : \A j \in ready : i <= j
                  IN  SyncStatus(StringField(conditions[first], "status") = "True",
                                 StringField(conditions[first], "message"))

\* ExternalSecretProvisioner.HealthCheck = [err, result, externalSecrets];
\* fault: the read of the ExternalSecret fails for a reason other than
\* not-found
ExternalSecretProvisioner_HealthCheck(provider, llmAccess, externalSecrets, fault) ==
    LET key == <<llmAccess.Namespace, llmAccess.Spec.SecretName>>
        esObj == externalSecrets[key]
        syncStatus == ParseSyncStatus(esObj)
        Read(err, result) ==
            [err |-> err, result |-> result, externalSecrets |-> externalSecrets]
    IN  IF fault
        THEN Read(Some(<<"failed to get ExternalSecret ", key[1], "/", key[2],
                         ": ", "api error">>), None)
        ELSE IF ~IsSome(esObj)
        THEN Read(None, Some(HealthCheckResult(FALSE, "ExternalSecret not found", <<>>)))
        ELSE Read(None, Some(HealthCheckResult(syncStatus.Ready, syncStatus.Message,
                                IF syncStatus.Ready THEN <<>>
                                ELSE <<<<"ExternalSecret not yet synced by ESO: ",
                                         syncStatus.Message>>>>)))

\* ------------------------------------------------ the provisioners alone
\* Provision of either strategy, and the reconciler's provisionAPIKeySecret,
\* called up to MaxCalls times for one declaration and one grant that do not
\* change, against a store that holds the master secret (or not) and, at the
\* artifact's name, nothing, a foreign object or an object of another owner.
ProvisionStrategies == {"apiKey", "reconciler", "externalSecret"}
ProvisionEndpointChoices ==
    {None, Some([BaseURL |-> ""]), Some([BaseURL |-> "https://llm.example/v1"])}
ProvisionAPIKeyAuthChoices ==
    {APIKeyAuth(None), [Type |-> AuthTypeAPIKey, APIKey |-> None, ExternalSecret |-> None]}
ProvisionExternalSecretAuthChoices ==
    {[ExternalSecretAuth EXCEPT
        !.ExternalSecret = Some([Get(@) EXCEPT !.RefreshInterval = i,
                                               !.RemoteRef.Property = p])] :
        i \in {<<>>, <<"3", "0", "m">>}, p \in {"", "api-key"}}
    \cup {[Type |-> AuthTypeExternalSecret, APIKey |-> None, ExternalSecret |-> None]}
ProvisionOverrideChoices ==
    {None, Some([Interval |-> <<>>]), Some([Interval |-> <<"6", "h">>])}

\* What is at the artifact's name before the first call
ForeignOwner == "another-controller"
ExistingSecretChoices ==
    {None,
     Some([Data |-> MergeStringData(Label("apiKey", "sk-stale"), Label("extra", "x")),
           Labels |-> Label("team", "a"), OwnerReferences |-> {}]),
     Some([EmptySecret EXCEPT
             !.OwnerReferences = {[Name |-> ForeignOwner, Controller |-> TRUE]}])}
ExistingExternalSecretChoices ==
    {None,
     Some([Labels |-> Label("team", "a"), OwnerReferences |-> {},
           spec |-> None,
           status |-> Some([conditions |->
                               Some(Slice(<<SyncCondition(Str("Ready"), Str("True"),
                                                          Str("secret synced"))>>))])]),
     Some([EmptyExternalSecret EXCEPT
             !.OwnerReferences = {[Name |-> ForeignOwner, Controller |-> TRUE]}])}
ExternalSecretKeys == {TargetKey, <<AccessNamespace, "chatbot-access">>}

ProvisionBench(strategy, provider, llmAccess, externalSecrets) ==
    [fn |-> "Provision", strategy |-> strategy, provider |-> provider,
     llmAccess |-> llmAccess, externalSecrets |-> externalSecrets,
     n |-> 0, ok |-> 0, out |-> None, single |-> None, before |-> None]

\* A declaration, a grant and a store drawn from the given choices
InitStore(endpoints, apiKeyAuths, externalSecretAuths, overrides, existingSecrets, existingExternalSecrets) ==
    /\ access = [g \in Grants |-> None]
    /\ providers = [p \in ProviderNames |-> None]
    /\ namespaces = [n \in NamespaceNames |-> None]
    /\ now = 0
    /\ last = NoPass
    /\ \E e \in endpoints :
          \/ /\ \E source \in {None} \cup {Some([EmptySecret EXCEPT !.Data = d]) :
                                             d \in SourceDataChoices} :
                \E target \in existingSecrets :
                   secrets = [k \in SecretKeys |->
                                 IF k = SourceKey THEN source ELSE target]
             /\ \E strategy \in {"apiKey", "reconciler"} :
                \E a \in apiKeyAuths :
                   bench = ProvisionBench(strategy,
                               [TestProvider EXCEPT !.Spec.Auth = a, !.Spec.Endpoint = e],
                               NewAccess("chatbot-access", <<"gpt-4o">>),
                               [k \in ExternalSecretKeys |-> None])
          \/ /\ secrets = [k \in SecretKeys |-> None]
             /\ \E a \in externalSecretAuths :
                \E o \in overrides :
                \E target \in existingExternalSecrets :
                   bench = ProvisionBench("externalSecret",
                               [TestProvider EXCEPT !.Spec.Auth = a, !.Spec.Endpoint = e],
                               [NewAccess("chatbot-access", <<"gpt-4o">>)
                                  EXCEPT !.Spec.Rotation = o],
                               [k \in ExternalSecretKeys |->
                                   IF k = TargetKey THEN target ELSE None])

InitProvision ==
    InitStore(ProvisionEndpointChoices, ProvisionAPIKeyAuthChoices,
              ProvisionExternalSecretAuthChoices, ProvisionOverrideChoices,
              ExistingSecretChoices, ExistingExternalSecretChoices)

\* The bench after a call that returned err and left the given store;
\* before is the store the call found
AfterProvision(err, result, newSecrets, newExternalSecrets, fault) ==
    [bench EXCEPT
       !.n = @ + 1,
       !.ok = IF IsSome(err) THEN @ ELSE @ + 1,
       !.out = Some([call |-> "Provision", err |-> err, result |-> result,
                     fault |-> fault]),
       !.externalSecrets = newExternalSecrets,
       !.before = Some([secrets |-> secrets,
                        externalSecrets |-> bench.externalSecrets]),
       !.single = IF IsSome(@) \/ IsSome(err) THEN @
                  ELSE Some([secrets |-> newSecrets,
                             externalSecrets |-> newExternalSecrets])]

CallApiKeyProvision(fault) ==
    /\ bench.fn = "Provision"
    /\ bench.strategy = "apiKey"
    /\ bench.n < MaxCalls
    /\ \E o \in {ApiKeyProvisioner_Provision(bench.provider, bench.llmAccess, fault)} :
          /\ secrets' = o.secrets
          /\ bench' = AfterProvision(o.err, o.result, o.secrets,
                                     bench.externalSecrets, fault)
    /\ UNCHANGED <<access, providers, namespaces, now, last>>

CallProvisionAPIKeySecret(fault) ==
    /\ bench.fn = "Provision"
    /\ bench.strategy = "reconciler"
    /\ bench.n < MaxCalls
    /\ \E o \in {provisionAPIKeySecret(bench.llmAccess, bench.provider,
                                       IF fault THEN "WriteSecret" ELSE NoFault)} :
          /\ secrets' = o.secrets
          /\ bench' = AfterProvision(o.err, None, o.secrets,
                                     bench.externalSecrets, fault)
    /\ UNCHANGED <<access, providers, namespaces, now, last>>

CallExternalSecretProvision(fault) ==
    /\ bench.fn = "Provision"
    /\ bench.strategy = "externalSecret"
    /\ bench.n < MaxCalls
    /\ \E o \in {ExternalSecretProvisioner_Provision(bench.provider, bench.llmAccess,
                                                     bench.externalSecrets, fault)} :
          bench' = AfterProvision(o.err, o.result, secrets, o.externalSecrets, fault)
    /\ UNCHANGED <<access, providers, namespaces, secrets, now, last>>

NextProvision ==
    \/ \E fault \in BOOLEAN : CallApiKeyProvision(fault)
    \/ \E fault \in BOOLEAN : CallProvisionAPIKeySecret(fault)
    \/ \E fault \in BOOLEAN : CallExternalSecretProvision(fault)

SpecProvision == InitProvision /\ [][NextProvision]_vars

\* ------------------------------------------- the artifact's life cycle
\* Provision, HealthCheck and Cleanup of either strategy called in any order,
\* up to MaxCalls calls, against a store whose objects at the artifact's name
\* are in every shape the calls tell apart; and ParseSyncStatus applied to
\* ExternalSecrets of every shape of status.
SyncStatusChoices ==
    {None,
     Some([conditions |-> None]),
     Some([conditions |-> Some(NotASlice)]),
     Some([conditions |-> Some(Slice(<<>>))]),
     Some([conditions |-> Some(Slice(
         <<SyncCondition(Str("Ready"), Str("True"), Str("secret synced"))>>))]),
     Some([conditions |-> Some(Slice(
         <<SyncCondition(Str("Ready"), Str("False"), Str("store unavailable"))>>))]),
     Some([conditions |-> Some(Slice(
         <<SyncCondition(Str("Deleted"), Str("True"), Str("gone"))>>))]),
     Some([conditions |-> Some(Slice(
         <<NotAMap, SyncCondition(NotAString, Str("True"), Str("no type")),
           SyncCondition(Str("Ready"), Str("True"), NotAString)>>))]),
     Some([conditions |-> Some(Slice(
         <<SyncCondition(Str("Ready"), Str("False"), Str("first")),
           SyncCondition(Str("Ready"), Str("True"), Str("second"))>>))]),
     Some([conditions |-> Some(Slice(
         <<SyncCondition(Str("Ready"), NotAString, Str("no status"))>>))]),
     Some([conditions |-> Some(Slice(
         <<SyncCondition(Str("Ready"), Str("true"), Str("lower case"))>>))])}

LifeCycleAPIKeyAuthChoices ==
    {APIKeyAuth(None),
     APIKeyAuth(Some([Enabled |-> TRUE, Interval |-> <<"7", "d">>,
                      Strategy |-> "providerAPI"])),
     [Type |-> AuthTypeAPIKey, APIKey |-> None, ExternalSecret |-> None]}
LifeCycleSecretChoices ==
    ExistingSecretChoices
    \cup {Some([Data |-> Label("extra", "x"), Labels |-> Label("team", "a"),
                OwnerReferences |-> {}])}
LifeCycleExternalSecretChoices ==
    {None} \cup {Some([EmptyExternalSecret EXCEPT !.status = st]) :
                    st \in SyncStatusChoices}

InitLifeCycle ==
    \/ InitStore({None}, LifeCycleAPIKeyAuthChoices, {ExternalSecretAuth}, {None},
                 LifeCycleSecretChoices, LifeCycleExternalSecretChoices)
    \/ /\ EmptyStore
       /\ \E obj \in LifeCycleExternalSecretChoices :
             bench = [fn |-> "ParseSyncStatus", obj |-> obj, out |-> None]

\* The bench after a HealthCheck or a Cleanup
AfterCall(call, err, result, newExternalSecrets, fault) ==
    [bench EXCEPT
       !.n = @ + 1,
       !.out = Some([call |-> call, err |-> err, result |-> result, fault |-> fault]),
       !.externalSecrets = newExternalSecrets,
       !.before = Some([secrets |-> secrets,
                        externalSecrets |-> bench.externalSecrets])]

CallApiKeyCleanup(fault) ==
    /\ bench.fn = "Provision"
    /\ bench.strategy = "apiKey"
    /\ bench.n < MaxCalls
    /\ \E o \in {ApiKeyProvisioner_Cleanup(bench.provider, bench.llmAccess, fault)} :
          /\ secrets' = o.secrets
          /\ bench' = AfterCall("Cleanup", o.err, None, bench.externalSecrets, fault)
    /\ UNCHANGED <<access, providers, namespaces, now, last>>

CallExternalSecretCleanup(fault) ==
    /\ bench.fn = "Provision"
    /\ bench.strategy = "externalSecret"
    /\ bench.n < MaxCalls
    /\ \E o \in {ExternalSecretProvisioner_Cleanup(bench.provider, bench.llmAccess,
                                                   bench.externalSecrets, fault)} :
          bench' = AfterCall("Cleanup", o.err, None, o.externalSecrets, fault)
    /\ UNCHANGED <<access, providers, namespaces, secrets, now, last>>

CallApiKeyHealthCheck(fault, old) ==
    /\ bench.fn = "Provision"
    /\ bench.strategy = "apiKey"
    /\ bench.n < MaxCalls
    /\ \E o \in {ApiKeyProvisioner_HealthCheck(bench.provider, bench.llmAccess,
                                               fault, old)} :
          /\ secrets' = o.secrets
          /\ bench' = AfterCall("HealthCheck", o.err, o.result,
                                bench.externalSecrets, fault)
    /\ UNCHANGED <<access, providers, namespaces, now, last>>

CallExternalSecretHealthCheck(fault) ==
    /\ bench.fn = "Provision"
    /\ bench.strategy = "externalSecret"
    /\ bench.n < MaxCalls
    /\ \E o \in {ExternalSecretProvisioner_HealthCheck(bench.provider, bench.llmAccess,
                                                       bench.externalSecrets, fault)} :
          bench' = AfterCall("HealthCheck", o.err, o.result, o.externalSecrets, fault)
    /\ UNCHANGED <<access, providers, namespaces, secrets, now, last>>

CallParseSyncStatus ==
    /\ bench.fn = "ParseSyncStatus"
    /\ ~IsSome(bench.out)
    /\ bench' = [bench EXCEPT !.out = Some(ParseSyncStatus(bench.obj))]
    /\ UNCHANGED <<access, providers, namespaces, secrets, now, last>>

NextLifeCycle ==
    \/ NextProvision
    \/ \E fault \in BOOLEAN : CallApiKeyCleanup(fault)
    \/ \E fault \in BOOLEAN : CallExternalSecretCleanup(fault)
    \/ \E fault \in HealthFaults : \E old \in BOOLEAN : CallApiKeyHealthCheck(fault, old)
    \/ \E fault \in BOOLEAN : CallExternalSecretHealthCheck(fault)
    \/ CallParseSyncStatus

SpecLifeCycle == InitLifeCycle /\ [][NextLifeCycle]_vars

\* ------------------------------------------------------ setCondition alone
\* Sequences of setCondition calls on one object, a grant or a declaration,
\* with the clock advancing between them.  bench.before is the condition
\* list before the last call, bench.call the arguments of the last call.
ConditionTypes == {ConditionTypeReady, ConditionTypeCredentialProvisioned}
ConditionStatuses == {ConditionTrue, ConditionFalse}
ConditionTexts ==
    {[Reason |-> ReasonProviderNotFound,
      Message |-> <<"LLMProvider ", ProviderName, " not found">>],
     [Reason |-> ReasonCredentialProvisioned,
      Message |-> <<"Credentials provisioned and ready">>]}
ConditionKinds == {"LLMAccess", "LLMProvider"}

InitConditions ==
    /\ EmptyStore
    /\ \E kind \in ConditionKinds :
          bench = [fn |-> "setCondition", kind |-> kind, n |-> 0,
                   obj |-> [Generation |-> 1, Status |-> [Conditions |-> <<>>]],
                   before |-> <<>>, call |-> None]

CallSetCondition(type, status, reason, message) ==
    /\ bench.fn = "setCondition"
    /\ bench.n < MaxCalls
    /\ bench' = [bench EXCEPT
                   !.n = @ + 1,
                   !.before = bench.obj.Status.Conditions,
                   !.call = Some([Type |-> type, Status |-> status,
                                  Reason |-> reason, Message |-> message]),
                   !.obj = IF bench.kind = "LLMAccess"
                           THEN setCondition(bench.obj, type, status, reason,
                                             message, now)
                           ELSE setConditionProvider(bench.obj, type, status, reason,
                                                     message, now)]
    /\ UNCHANGED <<access, providers, namespaces, secrets, now, last>>

ConditionClock ==
    /\ bench.fn = "setCondition"
    /\ now < MaxCalls
    /\ now' = now + 1
    /\ bench' = [bench EXCEPT !.call = None,
                              !.before = bench.obj.Status.Conditions]
    /\ UNCHANGED <<access, providers, namespaces, secrets, last>>

NextConditions ==
    \/ \E type \in ConditionTypes : \E status \in ConditionStatuses :
       \E text \in ConditionTexts :
          CallSetCondition(type, status, text.Reason, text.Message)
    \/ ConditionClock

SpecConditions == InitConditions /\ [][NextConditions]_vars

\* ============================================================= PodInjector
\* The mutating admission webhook for pod creation.  A pod is the part of
\* corev1.Pod the injector reads and writes; a grant is the part of LLMAccess
\* it reads: name, namespace, providerRef, secretName, workloadSelector and
\* injection.
InjectedProvidersAnnotation == "llmwarden.io/injected-providers"
InjectionStatusAnnotation == "llmwarden.io/injection-status"

StatusBadRequest == 400
StatusInternalServerError == 500
StatusOK == 200

\* admission.Allowed, admission.Errored and admission.PatchResponseFromRaw.
\* The patch is the difference between the request's raw object and the
\* marshaled pod; it is kept as the pod it leads to.
Allowed(message) ==
    [Allowed |-> TRUE, Code |-> StatusOK, Message |-> message, Patch |-> None]
Errored(code, message) ==
    [Allowed |-> FALSE, Code |-> code, Message |-> message, Patch |-> None]
PatchResponseFromRaw(marshaledPod) ==
    [Allowed |-> TRUE, Code |-> StatusOK, Message |-> "", Patch |-> Some(marshaledPod)]

\* strings.Join(elems, sep) as one string
RECURSIVE JoinString(_, _)
JoinString(elems, sep) ==
    IF Len(elems) = 0 THEN ""
    ELSE IF Len(elems) = 1 THEN elems[1]
    ELSE elems[1] \o sep \o JoinString(Tail(elems), sep)

\* m[k] = v on a map[string]string
SetKey(m, k, v) == [x \in DOMAIN m \cup {k} |-> IF x = k THEN v ELSE m[x]]

\* Defect for C28: a grant without a selector matches every pod.
M_shouldInject(pod, llmAccess) ==
    IF llmAccess.Spec.WorkloadSelector = None THEN TRUE
    ELSE LET sel == Get(llmAccess.Spec.WorkloadSelector)
         IN  SelectorValid(sel) /\ SelectorMatches(sel, pod.Labels)

\* Defect for C40: only a grant that is Ready and not terminating injects.
M_shouldInjectReadyOnly(pod, llmAccess) ==
    IF llmAccess.Spec.WorkloadSelector = None THEN FALSE
    ELSE LET sel == Get(llmAccess.Spec.WorkloadSelector)
         IN  IF ~SelectorValid(sel) THEN FALSE
             ELSE IF llmAccess.DeletionTimestamp # None THEN FALSE
             ELSE IF ~\E i \in 1..Len(llmAccess.Status.Conditions) :
                        /\ llmAccess.Status.Conditions[i].Type = ConditionTypeReady
                        /\ llmAccess.Status.Conditions[i].Status = ConditionTrue
             THEN FALSE
             ELSE SelectorMatches(sel, pod.Labels)

shouldInject(pod, llmAccess) ==
    IF llmAccess.Spec.WorkloadSelector = None THEN FALSE
    ELSE LET sel == Get(llmAccess.Spec.WorkloadSelector)
         IN  IF ~SelectorValid(sel) THEN FALSE
             ELSE SelectorMatches(sel, pod.Labels)

\* corev1.EnvVar with ValueFrom.SecretKeyRef: Value stays empty
SecretEnvVar(name, secretName, key) ==
    [Name |-> name, Value |-> "",
     ValueFrom |-> Some([SecretKeyRef |-> [Name |-> secretName, Key |-> key]])]

\* Defect for C29: the init containers are left out.
M_injectEnvVars(pod, llmAccess) ==
    LET mappings == llmAccess.Spec.Injection.Env
        envVars == [i \in 1..Len(mappings) |->
                       SecretEnvVar(mappings[i].Name, llmAccess.Spec.SecretName,
                                    mappings[i].SecretKey)]
    IN  [pod EXCEPT !.Spec.Containers =
            [c \in 1..Len(@) |-> [@[c] EXCEPT !.Env = @ \o envVars]]]

injectEnvVars(pod, llmAccess) ==
    LET mappings == llmAccess.Spec.Injection.Env
        envVars == [i \in 1..Len(mappings) |->
                       SecretEnvVar(mappings[i].Name, llmAccess.Spec.SecretName,
                                    mappings[i].SecretKey)]
    IN  [pod EXCEPT
            !.Spec.Containers =
                [c \in 1..Len(@) |-> [@[c] EXCEPT !.Env = @ \o envVars]],
            !.Spec.InitContainers =
                [c \in 1..Len(@) |-> [@[c] EXCEPT !.Env = @ \o envVars]]]

injectVolume(pod, llmAccess) ==
    LET volumeName == "llmwarden-" \o llmAccess.Name
        injection == Get(llmAccess.Spec.Injection.Volume)
        volume == [Name |-> volumeName,
                   Secret |-> [SecretName |-> llmAccess.Spec.SecretName]]
        volumeMount == [Name |-> volumeName, MountPath |-> injection.MountPath,
                        ReadOnly |-> injection.ReadOnly]
    IN  [pod EXCEPT
            !.Spec.Volumes = Append(@, volume),
            !.Spec.Containers =
                [c \in 1..Len(@) |->
                    [@[c] EXCEPT !.VolumeMounts = Append(@, volumeMount)]],
            !.Spec.InitContainers =
                [c \in 1..Len(@) |->
                    [@[c] EXCEPT !.VolumeMounts = Append(@, volumeMount)]]]

\* Neither helper returns an error, so err is always nil.
injectCredentials(pod, llmAccess) ==
    LET withEnv == IF Len(llmAccess.Spec.Injection.Env) > 0
                   THEN injectEnvVars(pod, llmAccess) ELSE pod
        withVolume == IF llmAccess.Spec.Injection.Volume # None
                      THEN injectVolume(withEnv, llmAccess) ELSE withEnv
    IN  [err |-> None, pod |-> withVolume]

\* Client.List(ctx, list, client.InNamespace(namespace))
ListInNamespace(cluster, namespace) ==
    SelectSeq(cluster, LAMBDA g : g.Namespace = namespace)

\* The loop of Handle over llmAccessList.Items, from item i on.  loop is the
\* pod, injectedProviders, the counters and modified.
RECURSIVE HandleItems(_, _, _, _)
HandleItems(items, i, namespace, loop) ==
    IF i > Len(items) THEN loop
    ELSE LET llmAccess == items[i]
             injected == injectCredentials(loop.pod, llmAccess)
             key == <<namespace, llmAccess.Spec.ProviderRef.Name>>
         IN  IF ~shouldInject(loop.pod, llmAccess)
             THEN HandleItems(items, i + 1, namespace, loop)
             ELSE IF injected.err # None
             THEN HandleItems(items, i + 1, namespace, loop)
             ELSE HandleItems(items, i + 1, namespace,
                    [pod |-> injected.pod,
                     injectedProviders |->
                        Append(loop.injectedProviders, llmAccess.Spec.ProviderRef.Name),
                     WebhookInjectionsTotal |->
                        [loop.WebhookInjectionsTotal EXCEPT ![key] = @ + 1],
                     modified |-> TRUE])

\* Defect for C27: a failing list rejects the pod.
M_HandleListFailure ==
    Errored(StatusInternalServerError, "failed to list LLMAccess resources")

HandleListFailure ==
    Allowed("failed to list LLMAccess resources, allowing pod creation")

\* PodInjector.Handle.  req.Object is None when the raw object does not decode
\* into a pod.  json.Marshal of a decoded pod does not fail, so the response
\* of that branch (500) is not among the results.
Handle(req, cluster, listFails, counters) ==
    LET unchanged(response) ==
            [response |-> response, WebhookInjectionsTotal |-> counters]
        items == ListInNamespace(cluster, req.Namespace)
    IN  IF req.Object = None
        THEN unchanged(Errored(StatusBadRequest, "decode failed"))
        ELSE IF listFails THEN unchanged(HandleListFailure)
        ELSE IF Len(items) = 0
        THEN unchanged(Allowed("no LLMAccess resources in namespace"))
        ELSE LET loop == HandleItems(items, 1, req.Namespace,
                            [pod |-> Get(req.Object), injectedProviders |-> <<>>,
                             WebhookInjectionsTotal |-> counters,
                             modified |-> FALSE])
                 annotated ==
                    [loop.pod EXCEPT !.Annotations =
                        SetKey(SetKey(@, InjectedProvidersAnnotation,
                                      JoinString(loop.injectedProviders, ",")),
                               InjectionStatusAnnotation, "injected")]
             IN  IF ~loop.modified
                 THEN unchanged(Allowed("no matching LLMAccess resources"))
                 ELSE [response |-> PatchResponseFromRaw(annotated),
                       WebhookInjectionsTotal |-> loop.WebhookInjectionsTotal]

\* ------------------------------------------------- the injector alone
\* An admission request for a pod against the grants of the cluster.
MaxGrants == 2
OtherNamespace == "team-b"
SecondProviderName == "anthropic-prod"

Container(name, env) == [Name |-> name, Env |-> env, VolumeMounts |-> <<>>]
LiteralEnvVar(name, value) == [Name |-> name, Value |-> value, ValueFrom |-> None]
Pod(lbls, annotations, containers, initContainers) ==
    [Labels |-> lbls, Annotations |-> annotations,
     Spec |-> [Containers |-> containers, InitContainers |-> initContainers,
               Volumes |-> <<>>]]

PodChoices ==
    {Pod(Label("app", "chatbot"), NoLabels,
         <<Container("app", <<>>)>>, <<>>),
     Pod(Label("app", "chatbot"), Label("owner", "team-a"),
         <<Container("app", <<LiteralEnvVar("LOG_LEVEL", "info")>>),
           Container("sidecar", <<>>)>>,
         <<Container("init", <<>>)>>),
     Pod(Label("app", "batch"), NoLabels,
         <<Container("app", <<>>)>>, <<Container("init", <<>>)>>),
     Pod(NoLabels, NoLabels, <<Container("app", <<>>)>>, <<>>)}

InjectorAccess(name, namespace, provider, secretName, selector, env, volume) ==
    [Name |-> name, Namespace |-> namespace,
     Spec |-> [ProviderRef |-> [Name |-> provider], SecretName |-> secretName,
               WorkloadSelector |-> selector,
               Injection |-> [Env |-> env, Volume |-> volume]]]

EnvVarMapping(name, secretKey) == [Name |-> name, SecretKey |-> secretKey]
VolumeInjection(mountPath, readOnly) == [MountPath |-> mountPath, ReadOnly |-> readOnly]
ChatbotSelector == Some(LabelSelector(Label("app", "chatbot"), <<>>))

GrantChoices ==
    {InjectorAccess("chatbot-access", AccessNamespace, ProviderName,
                    TargetSecretName, ChatbotSelector,
                    <<EnvVarMapping("OPENAI_API_KEY", "apiKey")>>, None),
     InjectorAccess("second-access", AccessNamespace, ProviderName,
                    "second-credentials", ChatbotSelector,
                    <<>>, Some(VolumeInjection("/var/run/llm", TRUE))),
     InjectorAccess("every-pod", AccessNamespace, SecondProviderName,
                    "anthropic-credentials", Some(LabelSelector(NoLabels, <<>>)),
                    <<EnvVarMapping("ANTHROPIC_API_KEY", "apiKey"),
                      EnvVarMapping("ANTHROPIC_BASE_URL", "baseUrl")>>,
                    Some(VolumeInjection("/etc/anthropic", FALSE))),
     InjectorAccess("no-selector", AccessNamespace, ProviderName,
                    "unselected-credentials", None,
                    <<EnvVarMapping("OPENAI_API_KEY", "apiKey")>>, None),
     InjectorAccess("bad-selector", AccessNamespace, ProviderName,
                    "invalid-credentials",
                    Some(LabelSelector(Label("app", "chatbot"),
                           <<[key |-> "app", operator |-> "In", values |-> {}]>>)),
                    <<EnvVarMapping("OPENAI_API_KEY", "apiKey")>>, None),
     InjectorAccess("chatbot-access", OtherNamespace, ProviderName,
                    "other-credentials", ChatbotSelector,
                    <<EnvVarMapping("OTHER_API_KEY", "apiKey")>>, None),
     InjectorAccess("nothing-to-inject", AccessNamespace, SecondProviderName,
                    "idle-credentials", ChatbotSelector, <<>>, None)}

\* The lists of at most MaxGrants different grants
Clusters ==
    UNION {{c \in [1..n -> GrantChoices] :
                \A i, j \in 1..n : i # j => c[i] # c[j]} : n \in 0..MaxGrants}

CounterLabels == {AccessNamespace, OtherNamespace} \X {ProviderName, SecondProviderName}

InitInjector ==
    /\ EmptyStore
    /\ \E object \in {None} \cup {Some(p) : p \in PodChoices} :
       \E cluster \in Clusters :
          bench = [fn |-> "Handle",
                   req |-> [Namespace |-> AccessNamespace, Object |-> object],
                   cluster |-> cluster,
                   WebhookInjectionsTotal |-> [l \in CounterLabels |-> 0],
                   out |-> None]

CallHandle(listFails) ==
    /\ bench.fn = "Handle"
    /\ bench.out = None
    /\ \E o \in {Handle(bench.req, bench.cluster, listFails,
                        bench.WebhookInjectionsTotal)} :
          bench' = [bench EXCEPT
                       !.out = Some([response |-> o.response,
                                     listFails |-> listFails]),
                       !.WebhookInjectionsTotal = o.WebhookInjectionsTotal]
    /\ UNCHANGED <<access, providers, namespaces, secrets, now, last>>

NextInjector == \E listFails \in BOOLEAN : CallHandle(listFails)

SpecInjector == InitInjector /\ [][NextInjector]_vars

\* The injector on grants as the store holds them: the list the webhook
\* reads carries each grant's status and deletion timestamp beside its spec.
StatusCondition(type, status, reason) ==
    [Type |-> type, Status |-> status, Reason |-> reason]
ReadyConditions ==
    <<StatusCondition(ConditionTypeReady, ConditionTrue, ReasonCredentialProvisioned),
      StatusCondition(ConditionTypeCredentialProvisioned, ConditionTrue,
                      ReasonSecretCreated)>>
\* Ready, rejected, never reconciled, terminating
LifeChoices ==
    {[Conditions |-> ReadyConditions, DeletionTimestamp |-> None],
     [Conditions |-> <<StatusCondition(ConditionTypeReady, ConditionFalse,
                                       ReasonModelNotAllowed)>>,
      DeletionTimestamp |-> None],
     [Conditions |-> <<>>, DeletionTimestamp |-> None],
     [Conditions |-> ReadyConditions, DeletionTimestamp |-> Some(1)]}
ReadyLife == [Conditions |-> ReadyConditions, DeletionTimestamp |-> None]

StoredAccess(grant, life) ==
    [Name |-> grant.Name, Namespace |-> grant.Namespace,
     DeletionTimestamp |-> life.DeletionTimestamp,
     Spec |-> grant.Spec,
     Status |-> [Conditions |-> life.Conditions]]

Sides == {"cluster", "twin"}

InitInjectorStatus ==
    /\ EmptyStore
    /\ \E pod \in PodChoices :
       \E cluster \in Clusters :
       \E life \in [1..Len(cluster) -> LifeChoices] :
          bench = [fn |-> "HandleStatus",
                   req |-> [Namespace |-> AccessNamespace, Object |-> Some(pod)],
                   lists |-> [side \in Sides |->
                                 [i \in 1..Len(cluster) |->
                                     StoredAccess(cluster[i],
                                        IF side = "twin" THEN life[i] ELSE ReadyLife)]],
                   out |-> [side \in Sides |-> None]]

CallHandleOn(side) ==
    /\ bench.fn = "HandleStatus"
    /\ bench.out[side] = None
    /\ bench' = [bench EXCEPT
                    !.out[side] = Some(Handle(bench.req, bench.lists[side], FALSE,
                                              [l \in CounterLabels |-> 0]))]
    /\ UNCHANGED <<access, providers, namespaces, secrets, now, last>>

NextInjectorStatus == \E side \in Sides : CallHandleOn(side)

SpecInjectorStatus == InitInjectorStatus /\ [][NextInjectorStatus]_vars

\* ================================================ LLMAccessCustomValidator
\* The validating admission webhook for grants (create and update, failure
\* policy fail).  Env names and mount paths are sequences of characters, as
\* the code looks at single bytes of them.
UpperCase == {"A", "B", "C", "D", "E", "F", "G", "H", "I", "J", "K", "L", "M", "N", "O", "P", "Q", "R", "S", "T", "U", "V", "W", "X", "Y", "Z"}

isValidEnvVarName(name) ==
    IF Len(name) = 0 THEN FALSE
    ELSE IF name[1] \notin UpperCase /\ name[1] # "_" THEN FALSE
    ELSE \A i \in 2..Len(name) :
            ~(name[i] \notin UpperCase /\ name[i] \notin Digits /\ name[i] # "_")

reservedEnvVars ==
    {<<"K", "U", "B", "E", "R", "N", "E", "T", "E", "S", "_", "S", "E", "R", "V", "I", "C", "E", "_", "H", "O", "S", "T">>,
     <<"K", "U", "B", "E", "R", "N", "E", "T", "E", "S", "_", "S", "E", "R", "V", "I", "C", "E", "_", "P", "O", "R", "T">>,
     <<"H", "O", "S", "T", "N", "A", "M", "E">>,
     <<"H", "O", "M", "E">>}

\* The warnings ValidateCreate has collected up to and including mapping i
ReservedWarnings(env, i) ==
    SelectSeq(SubSeq(env, 1, i), LAMBDA m : m.Name \in reservedEnvVars)

\* The first env mapping whose name is not valid (0: none)
FirstInvalidEnv(env) ==
    IF \E i \in 1..Len(env) : ~isValidEnvVarName(env[i].Name)
    THEN CHOOSE i \in 1..Len(env) :
            /\ ~isValidEnvVarName(env[i].Name)
            /\ \A j \in 1..(i - 1) : isValidEnvVarName(env[j].Name)
    ELSE 0

ValidateCreate(obj) ==
    LET env == obj.Spec.Injection.Env
        volume == obj.Spec.Injection.Volume
        bad == FirstInvalidEnv(env)
    IN  IF obj.Spec.ProviderRef.Name = ""
        THEN [warnings |-> <<>>, err |-> Some("spec.providerRef.name cannot be empty")]
        ELSE IF obj.Spec.SecretName = ""
        THEN [warnings |-> <<>>, err |-> Some("spec.secretName cannot be empty")]
        ELSE IF Len(env) = 0 /\ volume = None
        THEN [warnings |-> <<>>,
              err |-> Some("spec.injection must define at least one of: env or volume")]
        ELSE IF bad # 0
        THEN [warnings |-> ReservedWarnings(env, bad),
              err |-> Some("invalid env var name")]
        ELSE IF volume # None /\ Len(Get(volume).MountPath) = 0
        THEN [warnings |-> ReservedWarnings(env, Len(env)),
              err |-> Some("spec.injection.volume.mountPath cannot be empty")]
        ELSE IF volume # None /\ Get(volume).MountPath[1] # "/"
        THEN [warnings |-> ReservedWarnings(env, Len(env)),
              err |-> Some("spec.injection.volume.mountPath must be an absolute path")]
        ELSE [warnings |-> ReservedWarnings(env, Len(env)), err |-> None]

ValidateUpdate(oldObj, newObj) == [warnings |-> <<>>, err |-> None]

ValidateDelete(obj) == [warnings |-> <<>>, err |-> None]

\* The kubebuilder validation markers of LLMAccessSpec, which the API server
\* enforces on create and update before the webhook is called: MinLength=1
\* on providerRef.name, secretName, env name, env secretKey and mountPath.
SchemaValid(obj) ==
    /\ obj.Spec.ProviderRef.Name # ""
    /\ obj.Spec.SecretName # ""
    /\ \A i \in 1..Len(obj.Spec.Injection.Env) :
          /\ Len(obj.Spec.Injection.Env[i].Name) >= 1
          /\ obj.Spec.Injection.Env[i].SecretKey # ""
    /\ obj.Spec.Injection.Volume # None =>
          Len(Get(obj.Spec.Injection.Volume).MountPath) >= 1

\* --------------------------------------------------- the validator alone
\* Create, update and delete requests for one grant, and the admission of a
\* pod the stored grant selects.
EnvNameChoices ==
    {<<"A", "P", "I", "_", "K", "E", "Y">>, <<"H", "O", "M", "E">>, <<"H", "O", "S", "T", "N", "A", "M", "E">>,
     <<"a", "p", "i", "K", "e", "y">>, <<"9", "L", "I", "V", "E", "S">>, <<"_", "X", "9">>, <<>>}
EnvChoices ==
    {<<>>} \cup {<<EnvVarMapping(n, "apiKey")>> : n \in EnvNameChoices}
    \cup {<<EnvVarMapping(<<"A", "P", "I", "_", "K", "E", "Y">>, "apiKey"), EnvVarMapping(n, "baseUrl")>> :
            n \in {<<"H", "O", "M", "E">>, <<"a", "p", "i", "K", "e", "y">>}}
MountPathChoices == {<<>>, <<"/", "l", "l", "m">>, <<"l", "l", "m">>}
VolumeChoices ==
    {None} \cup {Some(VolumeInjection(p, TRUE)) : p \in MountPathChoices}
RequestedGrants ==
    {InjectorAccess("chatbot-access", AccessNamespace, provider, secretName,
                    ChatbotSelector, env, volume) :
        provider \in {"", ProviderName}, secretName \in {"", TargetSecretName},
        env \in EnvChoices, volume \in VolumeChoices}

InitValidator ==
    /\ EmptyStore
    /\ bench = [fn |-> "Validate", stored |-> None, out |-> None,
                injected |-> None]

\* The API server stores the object when the schema and the webhook let it pass.
AfterValidate(call, obj, verdict) ==
    LET admitted == SchemaValid(obj) /\ verdict.err = None
    IN  /\ bench' = [bench EXCEPT
                        !.stored = IF admitted THEN Some(obj) ELSE @,
                        !.out = Some([call |-> call, obj |-> obj,
                                      admitted |-> admitted,
                                      warnings |-> verdict.warnings]),
                        !.injected = None]
        /\ UNCHANGED <<access, providers, namespaces, secrets, now, last>>

CallValidateCreate(obj) ==
    /\ bench.fn = "Validate"
    /\ bench.stored = None
    /\ AfterValidate("create", obj, ValidateCreate(obj))

CallValidateUpdate(obj) ==
    /\ bench.fn = "Validate"
    /\ bench.stored # None
    /\ AfterValidate("update", obj, ValidateUpdate(Get(bench.stored), obj))

CallValidateDelete ==
    /\ bench.fn = "Validate"
    /\ bench.stored # None
    /\ ValidateDelete(Get(bench.stored)).err = None
    /\ bench' = [bench EXCEPT !.stored = None, !.out = None, !.injected = None]
    /\ UNCHANGED <<access, providers, namespaces, secrets, now, last>>

\* A pod the stored grant selects is created: PodInjector.Handle
CallInjectStored ==
    /\ bench.fn = "Validate"
    /\ bench.stored # None
    /\ bench.injected = None
    /\ \E pod \in {Pod(Label("app", "chatbot"), NoLabels,
                       <<Container("app", <<>>)>>, <<Container("init", <<>>)>>)} :
       \E o \in {Handle([Namespace |-> AccessNamespace, Object |-> Some(pod)],
                        <<Get(bench.stored)>>, FALSE,
                        [l \in CounterLabels |-> 0])} :
          bench' = [bench EXCEPT !.injected = Some([pod |-> pod,
                                                    response |-> o.response])]
    /\ UNCHANGED <<access, providers, namespaces, secrets, now, last>>

NextValidator ==
    \/ \E obj \in RequestedGrants : CallValidateCreate(obj)
    \/ \E obj \in RequestedGrants : CallValidateUpdate(obj)
    \/ CallValidateDelete
    \/ CallInjectStored

SpecValidator == InitValidator /\ [][NextValidator]_vars

\* ============================================== the controller's work queue
\* SetupWithManager: the controller is built For(LLMAccess) and Owns(Secret).
\* A change of a grant enqueues the grant, a change of a Secret enqueues the
\* grant that is its controller owner, and nothing else is watched.  A pass
\* runs only for a queued request.  bench.queue is the work queue,
\* bench.timers the requests waiting for their RequeueAfter, bench.stale the
\* grants whose declaration or artifact has changed since their last pass
\* began, with what changed.
ControllerOwners(secret) ==
    IF IsSome(secret)
    THEN {r.Name : r \in {x \in Get(secret).OwnerReferences : x.Controller}}
    ELSE {}

\* The requests the watches enqueue for a change of the store
ForEvents(oldAccess, newAccess) == {g \in Grants : oldAccess[g] # newAccess[g]}
OwnsEvents(oldSecrets, newSecrets) ==
    UNION {ControllerOwners(oldSecrets[k]) \cup ControllerOwners(newSecrets[k]) :
              k \in {x \in SecretKeys : oldSecrets[x] # newSecrets[x]}}

\* Defect for C34: a pass that finds no declaration is not requeued.
M_RequeueTimers(g, result) == {}

\* controller-runtime after a pass: an error or Requeue puts the request back
\* with rate limiting, else RequeueAfter > 0 starts a timer.
RequeueTimers(g, result) ==
    IF ~result.err /\ ~result.Requeue /\ result.RequeueAfter > 0 THEN {g} ELSE {}
RequeueNow(g, result) ==
    IF result.err \/ result.Requeue THEN {g} ELSE {}

NoChange == [declaration |-> FALSE, artifact |-> FALSE]

InitQueue ==
    /\ \E models \in ModelChoices :
          access = [g \in Grants |->
                       IF g = "chatbot-access" THEN Some(NewAccess(g, models)) ELSE None]
    /\ providers \in [ProviderNames -> {None, Some(TestProvider)}]
    /\ namespaces = [n \in NamespaceNames |->
                        Some([Name |-> n, Labels |-> Label("ai-tier", "production")])]
    /\ secrets = [k \in SecretKeys |->
                     IF k = SourceKey
                     THEN Some([EmptySecret EXCEPT
                                  !.Data = Label(SourceSecretKey, "sk-test-key")])
                     ELSE None]
    /\ now = 0
    /\ last = NoPass
    /\ bench = [fn |-> "workqueue", queue |-> {g \in Grants : IsSome(access[g])},
                timers |-> {}, stale |-> [g \in Grants |-> NoChange]]

\* The controller takes g off the queue and runs Reconcile for it.
ProcessNextWorkItem(g, fault) ==
    /\ bench.fn = "workqueue"
    /\ g \in bench.queue
    /\ \E c \in {ReconcileOutcome(g, NoFault)} :
       \E o \in {IF fault = NoFault THEN c ELSE ReconcileOutcome(g, fault)} :
          /\ fault # NoFault => o # c
          /\ access' = [access EXCEPT ![g] = o.access]
          /\ secrets' = o.secrets
          /\ last' = [g |-> g, branch |-> o.branch, result |-> o.result,
                      calls |-> o.calls, events |-> o.events,
                      fault |-> fault,
                      pre |-> Some([access |-> access[g], secrets |-> secrets]),
                      clean |-> Some([access |-> c.access, secrets |-> c.secrets])]
          /\ bench' = [bench EXCEPT
                !.queue = (@ \ {g}) \cup RequeueNow(g, o.result)
                             \cup ForEvents(access, [access EXCEPT ![g] = o.access])
                             \cup OwnsEvents(secrets, o.secrets),
                !.timers = @ \cup RequeueTimers(g, o.result),
                !.stale = [@ EXCEPT ![g] = NoChange]]
    /\ UNCHANGED <<providers, namespaces, now>>

\* The RequeueAfter of an earlier pass elapses.
TimerFires(g) ==
    /\ bench.fn = "workqueue"
    /\ g \in bench.timers
    /\ bench' = [bench EXCEPT !.queue = @ \cup {g}, !.timers = @ \ {g}]
    /\ UNCHANGED <<access, providers, namespaces, secrets, now, last>>

\* An event of the environment: the clock moves, the watches enqueue.
QueueEdit(enqueued, staleDeclaration, staleArtifact) ==
    /\ bench.fn = "workqueue"
    /\ now < MaxEvents
    /\ now' = now + 1
    /\ last' = NoPass
    /\ bench' = [bench EXCEPT
          !.queue = @ \cup enqueued,
          !.stale = [g \in Grants |->
                       [declaration |-> @[g].declaration \/ g \in staleDeclaration,
                        artifact |-> @[g].artifact \/ g \in staleArtifact]]]

\* The grants that refer to the declaration p
Referencing(p) ==
    {g \in Grants : IsSome(access[g]) /\ Get(access[g]).Spec.ProviderRef.Name = p}

\* The platform operator creates or deletes the declaration or edits its
\* allow-list or its namespace selector: no watch, nothing is enqueued.
ProviderEvent(p) ==
    /\ \E new \in
          IF ~IsSome(providers[p]) THEN {Some(TestProvider)}
          ELSE {None}
               \cup {Some([Get(providers[p]) EXCEPT !.Spec.AllowedModels = a]) :
                        a \in AllowedModelChoices}
               \cup {Some([Get(providers[p]) EXCEPT !.Spec.NamespaceSelector = x]) :
                        x \in NamespaceSelectorChoices} :
          /\ new # providers[p]
          /\ providers' = [providers EXCEPT ![p] = new]
    /\ QueueEdit({}, Referencing(p), {})
    /\ UNCHANGED <<access, namespaces, secrets>>

\* Somebody overwrites or deletes the grant's artifact: Owns(Secret)
\* enqueues its controller owner.
ArtifactEvent ==
    /\ IsSome(secrets[TargetKey])
    /\ \E new \in {None,
                   Some([Get(secrets[TargetKey]) EXCEPT
                           !.Data = MergeStringData(@, Label("apiKey", "sk-tampered"))])} :
          /\ new # secrets[TargetKey]
          /\ secrets' = [secrets EXCEPT ![TargetKey] = new]
          /\ QueueEdit(OwnsEvents(secrets, [secrets EXCEPT ![TargetKey] = new]),
                       {}, ControllerOwners(secrets[TargetKey]))
    /\ UNCHANGED <<access, providers, namespaces>>

\* The tenant edits the grant's models: For(LLMAccess) enqueues the grant.
AccessEvent(g) ==
    /\ IsSome(access[g])
    /\ ~IsSome(Get(access[g]).DeletionTimestamp)
    /\ \E m \in ModelChoices :
          /\ m # Get(access[g]).Spec.Models
          /\ access' = [access EXCEPT ![g] =
                           Some([Get(@) EXCEPT !.Spec.Models = m, !.Generation = @ + 1])]
    /\ QueueEdit({g}, {}, {})
    /\ UNCHANGED <<providers, namespaces, secrets>>

NextQueue ==
    \/ \E g \in Grants : \E fault \in Faults \cup {NoFault} : ProcessNextWorkItem(g, fault)
    \/ \E g \in Grants : TimerFires(g)
    \/ \E p \in ProviderNames : ProviderEvent(p)
    \/ ArtifactEvent
    \/ \E g \in Grants : AccessEvent(g)

SpecQueue == InitQueue /\ [][NextQueue]_vars

\* Every timer elapses.
QueueFairness == \A g \in Grants : WF_vars(TimerFires(g))
SpecQueueFair == SpecQueue /\ QueueFairness

\* =================================================================== claims
\* Vocabulary of the claims.  A state with last.g # "" is the state in which a
\* pass for last.g has just returned; last.pre is the store the pass started
\* from.  A pass changes neither providers nor namespaces, so both are read
\* in the state after the pass.
PassDone == last.g # ""
PreAccess == Get(last.pre).access
PreSecrets == Get(last.pre).secrets
Guarded(obj) == llmAccessFinalizer \in obj.Finalizers
Deleting(obj) == IsSome(obj.DeletionTimestamp)

\* A pass for a grant that exists, carries the finalizer and is not deleting.
BusinessPass ==
    /\ PassDone
    /\ IsSome(PreAccess)
    /\ Guarded(Get(PreAccess))
    /\ ~Deleting(Get(PreAccess))

\* The grant as stored after the pass, and the declaration it references.
Stored == Get(access[last.g])
Declaration == Get(GetProvider(Get(PreAccess).Spec.ProviderRef.Name))
DeclarationFound ==
    /\ BusinessPass
    /\ last.fault # "GetProvider"
    /\ IsSome(GetProvider(Get(PreAccess).Spec.ProviderRef.Name))

HasCondition(obj, type, status, reason) ==
    \E i \in 1..Len(obj.Status.Conditions) :
        /\ obj.Status.Conditions[i].Type = type
        /\ obj.Status.Conditions[i].Status = status
        /\ obj.Status.Conditions[i].Reason = reason

ConditionStatus(obj, type, status) ==
    \E i \in 1..Len(obj.Status.Conditions) :
        /\ obj.Status.Conditions[i].Type = type
        /\ obj.Status.Conditions[i].Status = status

MessageOf(obj, type) ==
    obj.Status.Conditions[CHOOSE i \in 1..Len(obj.Status.Conditions) :
                              obj.Status.Conditions[i].Type = type].Message

\* The namespace admission predicate and the allow-list, stated on the
\* objects of the store.
NamespaceAdmitted ==
    \/ ~IsSome(Declaration.Spec.NamespaceSelector)
    \/ /\ last.fault # "GetNamespace"
       /\ LET sel == Get(Declaration.Spec.NamespaceSelector)
              lbls == Get(namespaces[Get(PreAccess).Namespace]).Labels
          IN  /\ \A k \in DOMAIN sel.MatchLabels :
                    k \in DOMAIN lbls /\ lbls[k] = sel.MatchLabels[k]
              /\ sel.MatchExpressions = <<>>
ModelsAdmitted ==
    \/ Declaration.Spec.AllowedModels = <<>>
    \/ Range(Get(PreAccess).Spec.Models) \subseteq Range(Declaration.Spec.AllowedModels)

\* The master secret holds the declared sub-key and the artifact is free or
\* already controlled by the grant: provisioning has nothing to fail on but
\* the write itself.
SourceUsable ==
    /\ IsSome(Declaration.Spec.Auth.APIKey)
    /\ LET ref == Get(Declaration.Spec.Auth.APIKey).SecretRef
       IN  /\ <<ref.Namespace, ref.Name>> \in SecretKeys
           /\ IsSome(PreSecrets[<<ref.Namespace, ref.Name>>])
           /\ ref.Key \in DOMAIN Get(PreSecrets[<<ref.Namespace, ref.Name>>]).Data
ArtifactKey == <<Get(PreAccess).Namespace, Get(PreAccess).Spec.SecretName>>
ArtifactFree ==
    \/ ~IsSome(PreSecrets[ArtifactKey])
    \/ \A r \in Get(PreSecrets[ArtifactKey]).OwnerReferences :
          r.Controller => r.Name = Get(PreAccess).Name

\* C1: in a pass for a deleting grant that carries the finalizer, the
\* strategy's Cleanup is invoked and the finalizer is removed only after it
\* returned success or "already absent": when the pass has removed the
\* finalizer, Cleanup was called in it and the artifact is gone.
C1_GuardRemovedOnlyAfterCleanup ==
    (PassDone /\ last.branch = "FinalizerRemoved" /\ IsSome(PreSecrets[ArtifactKey]))
        => /\ \E i \in 1..Len(last.calls) : last.calls[i] = "Cleanup"
           /\ ~IsSome(secrets[ArtifactKey])

\* C2: a pass for a grant without the finalizer and not deleting only
\* attaches the finalizer, persists the grant and returns Requeue=true: it
\* looks up no declaration, validates nothing, provisions nothing and writes
\* no status; so an artifact is only ever created by a pass that started with
\* the finalizer persisted.
C2_GuardAttachedInItsOwnPass ==
    /\ (PassDone /\ IsSome(PreAccess) /\ ~Guarded(Get(PreAccess))
        /\ ~Deleting(Get(PreAccess)))
          => /\ last.calls = <<"Get", "AddFinalizer", "Update">>
             /\ secrets = PreSecrets
             /\ Stored.Status = Get(PreAccess).Status
             /\ Stored.Spec = Get(PreAccess).Spec
             /\ last.fault # "Update"
                  => /\ Guarded(Stored)
                     /\ last.result = Result(TRUE, 0, FALSE)
    /\ (PassDone /\ secrets # PreSecrets)
          => /\ IsSome(PreAccess)
             /\ Guarded(Get(PreAccess))
    /\ \A k \in SecretKeys : \A g \in Grants :
          (/\ IsSome(secrets[k])
           /\ [Name |-> g, Controller |-> TRUE] \in Get(secrets[k]).OwnerReferences
           /\ IsSome(access[g]))
             => Guarded(Get(access[g]))

C2_Witness == PassDone /\ last.branch = "FinalizerAdded"

\* C3: a pass that ends with Ready=False because the declaration is missing,
\* the namespace or a model is not allowed, or the auth kind is unsupported
\* invokes no provisioning and leaves every Secret as it was.
RejectedReasons ==
    {ReasonProviderNotFound, ReasonNamespaceNotAllowed, ReasonModelNotAllowed,
     ReasonAuthTypeNotSupported}
C3_RejectionNeverProvisions ==
    (/\ BusinessPass
     /\ last.fault # "StatusUpdate"
     /\ last.result.err = FALSE
     /\ \E r \in RejectedReasons :
           HasCondition(Stored, ConditionTypeReady, ConditionFalse, r))
        => /\ secrets = PreSecrets
           /\ \A i \in 1..Len(last.calls) : last.calls[i] # "provisionAPIKeySecret"

C3_Witness ==
    /\ BusinessPass
    /\ last.fault = NoFault
    /\ HasCondition(Stored, ConditionTypeReady, ConditionFalse, ReasonModelNotAllowed)
    /\ ~IsSome(secrets[ArtifactKey])

\* C4: when the declaration's namespace selector does not match the labels of
\* the grant's namespace, the pass sets Ready=False/NamespaceNotAllowed and
\* returns no requeue and no error; a declaration without a selector admits
\* every namespace.
C4_NamespaceNotAllowedIsPermanent ==
    /\ (DeclarationFound /\ ~NamespaceAdmitted /\ last.fault # "StatusUpdate")
          => /\ HasCondition(Stored, ConditionTypeReady, ConditionFalse,
                             ReasonNamespaceNotAllowed)
             /\ last.result = Result(FALSE, 0, FALSE)
    /\ (DeclarationFound /\ ~IsSome(Declaration.Spec.NamespaceSelector)
        /\ last.fault # "StatusUpdate")
          => ~HasCondition(Stored, ConditionTypeReady, ConditionFalse,
                           ReasonNamespaceNotAllowed)

C4_Witness ==
    /\ DeclarationFound
    /\ last.fault = NoFault
    /\ IsSome(Declaration.Spec.NamespaceSelector)
    /\ ~NamespaceAdmitted
    /\ last.result = Result(FALSE, 0, FALSE)

\* C5: when the allow-list is non-empty and a requested model is absent from
\* it, the pass sets Ready=False/ModelNotAllowed and returns no requeue and
\* no error; with an empty allow-list every requested set passes the check.
C5_ModelNotAllowedIsPermanent ==
    /\ (DeclarationFound /\ NamespaceAdmitted /\ ~ModelsAdmitted
        /\ last.fault # "StatusUpdate")
          => /\ HasCondition(Stored, ConditionTypeReady, ConditionFalse,
                             ReasonModelNotAllowed)
             /\ last.result = Result(FALSE, 0, FALSE)
    /\ (DeclarationFound /\ Declaration.Spec.AllowedModels = <<>>
        /\ last.fault # "StatusUpdate")
          => ~HasCondition(Stored, ConditionTypeReady, ConditionFalse,
                           ReasonModelNotAllowed)

C5_Witness ==
    /\ DeclarationFound
    /\ NamespaceAdmitted
    /\ last.fault = NoFault
    /\ Len(Get(PreAccess).Spec.Models) = 2
    /\ ~ModelsAdmitted
    /\ last.result = Result(FALSE, 0, FALSE)

\* C6: every grant's status.provisionedModels is a subset of its
\* declaration's allowedModels whenever that allow-list is non-empty; stated
\* where the reconciler has had its say: in the state in which a pass for the
\* grant has just persisted its status.
C6_ProvisionedModelsWithinAllowList ==
    (DeclarationFound /\ last.fault = NoFault
     /\ Declaration.Spec.AllowedModels # <<>>)
        => Range(Stored.Status.ProvisionedModels)
              \subseteq Range(Declaration.Spec.AllowedModels)

\* C7: when the referenced declaration does not exist, the pass sets
\* Ready=False/ProviderNotFound, persists the status and returns no error
\* with a requeue delay of 30 seconds.
C7_ProviderNotFoundRetried ==
    (/\ BusinessPass
     /\ last.fault \notin {"GetProvider", "StatusUpdate"}
     /\ ~IsSome(GetProvider(Get(PreAccess).Spec.ProviderRef.Name)))
        => /\ HasCondition(Stored, ConditionTypeReady, ConditionFalse,
                           ReasonProviderNotFound)
           /\ last.result = Result(FALSE, 30, FALSE)

C7_Witness ==
    /\ BusinessPass
    /\ ~IsSome(GetProvider(Get(PreAccess).Spec.ProviderRef.Name))
    /\ HasCondition(Stored, ConditionTypeReady, ConditionFalse, ReasonProviderNotFound)

\* C8: when a pass passes all validations and provisioning succeeds, the
\* persisted status has CredentialProvisioned=True and Ready=True, secretRef
\* = (Secret, grant namespace, spec.secretName), lastRotation set and
\* provisionedModels equal to spec.models.
ProvisioningSucceeds ==
    /\ DeclarationFound
    /\ NamespaceAdmitted
    /\ ModelsAdmitted
    /\ Declaration.Spec.Auth.Type = AuthTypeAPIKey
    /\ SourceUsable
    /\ ArtifactFree
    /\ last.fault = NoFault
C8_SuccessStatus ==
    ProvisioningSucceeds
        => /\ ConditionStatus(Stored, ConditionTypeCredentialProvisioned, ConditionTrue)
           /\ ConditionStatus(Stored, ConditionTypeReady, ConditionTrue)
           /\ Stored.Status.SecretRef =
                  Some([Kind |-> "Secret", Namespace |-> Stored.Namespace,
                        Name |-> Stored.Spec.SecretName])
           /\ Stored.Status.LastRotation = Some(now)
           /\ Stored.Status.ProvisionedModels = Stored.Spec.Models
           /\ last.result.err = FALSE

C8_Witness ==
    /\ ProvisioningSucceeds
    /\ IsSome(secrets[ArtifactKey])
    /\ now > 0

\* C9: when provisioning returns an error, the persisted status has
\* CredentialProvisioned=False and Ready=False carrying the wrapped error
\* message, and the pass asks for a retry after 30 seconds.
ProvisioningFails ==
    /\ DeclarationFound
    /\ NamespaceAdmitted
    /\ ModelsAdmitted
    /\ Declaration.Spec.Auth.Type = AuthTypeAPIKey
    /\ last.fault \in {NoFault, "WriteSecret"}
    /\ \/ ~SourceUsable
       \/ ~ArtifactFree
       \/ last.fault = "WriteSecret"
C10_ExternalSecretProvisioned ==
    (/\ DeclarationFound
     /\ NamespaceAdmitted
     /\ ModelsAdmitted
     /\ Declaration.Spec.Auth.Type = AuthTypeExternalSecret
     /\ IsSome(Declaration.Spec.Auth.ExternalSecret)
     /\ last.fault = NoFault)
        => /\ ConditionStatus(Stored, ConditionTypeReady, ConditionTrue)
           /\ ~HasCondition(Stored, ConditionTypeReady, ConditionFalse,
                            ReasonAuthTypeNotSupported)

\* C11: for a declaration whose auth kind the reconciler has no strategy for
\* (every kind but apiKey), the pass of an admitted grant sets
\* Ready=False/AuthTypeNotSupported, provisions nothing and returns no error
\* with a requeue delay of 5 minutes.
C11_UnsupportedAuthBoundedRequeue ==
    (/\ DeclarationFound
     /\ NamespaceAdmitted
     /\ ModelsAdmitted
     /\ Declaration.Spec.Auth.Type # AuthTypeAPIKey
     /\ last.fault # "StatusUpdate")
        => /\ HasCondition(Stored, ConditionTypeReady, ConditionFalse,
                           ReasonAuthTypeNotSupported)
           /\ \A i \in 1..Len(last.calls) : last.calls[i] # "provisionAPIKeySecret"
           /\ secrets = PreSecrets
           /\ last.result = Result(FALSE, 300, FALSE)

C11_Witness ==
    /\ DeclarationFound
    /\ NamespaceAdmitted
    /\ ModelsAdmitted
    /\ Declaration.Spec.Auth.Type = AuthTypeWorkloadIdentity
    /\ last.fault = NoFault
    /\ last.branch = "AuthTypeNotSupported"

\* C12: getRotationInterval is the parsed grant override when
\* spec.rotation.interval is present, non-empty and parses; otherwise the
\* parsed declaration interval when the declaration's rotation is enabled,
\* non-empty and parses; otherwise 0.  An override that does not parse falls
\* through to the declaration.  Override 6h with declaration 24h gives 6h,
\* no override with declaration 24h gives 24h, neither gives 0.
Parses(s) == s # <<>> /\ ~parseDuration(s).err
RotationCalled == bench.fn = "getRotationInterval" /\ IsSome(bench.out)
BenchOverride ==
    IF IsSome(bench.llmAccess.Spec.Rotation)
    THEN Get(bench.llmAccess.Spec.Rotation).Interval ELSE <<>>
BenchDeclared ==
    IF /\ IsSome(bench.provider.Spec.Auth.APIKey)
       /\ IsSome(Get(bench.provider.Spec.Auth.APIKey).Rotation)
       /\ Get(Get(bench.provider.Spec.Auth.APIKey).Rotation).Enabled
    THEN Get(Get(bench.provider.Spec.Auth.APIKey).Rotation).Interval ELSE <<>>
C12_EffectiveRotationInterval ==
    RotationCalled
        => /\ Get(bench.out) =
                 IF Parses(BenchOverride) THEN parseDuration(BenchOverride).d
                 ELSE IF Parses(BenchDeclared) THEN parseDuration(BenchDeclared).d
                 ELSE Zero64
           /\ (BenchOverride = <<"6", "h">> /\ BenchDeclared = <<"2", "4", "h">>)
                 => Seconds(Get(bench.out)) = 6 * 3600
           /\ (BenchOverride \in {<<>>, <<"7", "x">>, <<"h">>, <<"6">>}
               /\ BenchDeclared = <<"2", "4", "h">>)
                 => Seconds(Get(bench.out)) = 24 * 3600
           /\ (BenchOverride = <<>> /\ BenchDeclared = <<>>)
                 => Get(bench.out) = Zero64

C12_Witness ==
    /\ RotationCalled
    /\ BenchOverride = <<"7", "x">>
    /\ BenchDeclared = <<"2", "4", "h">>
    /\ Seconds(Get(bench.out)) = 86400

\* C13: a successful pass returns a requeue delay of exactly the effective
\* rotation interval when that interval is positive and records now +
\* interval as the next rotation; when the interval is 0 it returns no
\* requeue.  The interval is that of the grant and the declaration as they
\* are in this pass, whatever an earlier pass scheduled.
StoredOverride ==
    IF IsSome(Stored.Spec.Rotation) THEN Get(Stored.Spec.Rotation).Interval ELSE <<>>
DeclaredInterval ==
    IF /\ IsSome(Declaration.Spec.Auth.APIKey)
       /\ IsSome(Get(Declaration.Spec.Auth.APIKey).Rotation)
       /\ Get(Get(Declaration.Spec.Auth.APIKey).Rotation).Enabled
    THEN Get(Get(Declaration.Spec.Auth.APIKey).Rotation).Interval ELSE <<>>
EffectiveInterval ==
    IF Parses(StoredOverride) THEN parseDuration(StoredOverride).d
    ELSE IF Parses(DeclaredInterval) THEN parseDuration(DeclaredInterval).d
    ELSE Zero64
ParseCalled == bench.fn = "parseDuration" /\ IsSome(bench.out)
CountOf(s) == SubSeq(s, 1, Len(s) - 1)
UnitOf(s) == s[Len(s)]
WellFormed(s) ==
    /\ Len(s) >= 2
    /\ \A i \in 1..(Len(s) - 1) : s[i] \in Digits
    /\ UnitOf(s) \in {"d", "h", "m"}
ExactDuration(s) ==
    CASE UnitOf(s) = "d" -> MulDay(DecimalValue(CountOf(s)))
      [] UnitOf(s) = "h" -> MulHour(DecimalValue(CountOf(s)))
      [] UnitOf(s) = "m" -> MulMinute(DecimalValue(CountOf(s)))
FitsInt64(x) == (\A i \in 5..Wide : x[i] = 0) /\ x[4] < 32768
C14_ParseDurationAcceptsPositiveCounts ==
    (ParseCalled /\ (WellFormed(bench.s) => FitsInt64(ExactDuration(bench.s))))
        => /\ ~Get(bench.out).err
                 <=> (WellFormed(bench.s)
                      /\ DecimalValue(CountOf(bench.s)) # Pad(<<>>, Wide))
           /\ ~Get(bench.out).err
                 => /\ WellFormed(bench.s)
                    /\ Pad(Get(bench.out).d, Wide) = ExactDuration(bench.s)

\* C15: no accepted duration string yields more than 365 days, and for every
\* accepted string the 64-bit duration is the mathematical product of the
\* count and the unit: it has not wrapped around.
MaxDurationDays == 365
C15_DurationBoundedNoOverflow ==
    (ParseCalled /\ ~Get(bench.out).err)
        => /\ ~Negative(Get(bench.out).d)
           /\ Pad(Get(bench.out).d, Wide) = ExactDuration(bench.s)
           /\ LimbsLeq(Get(bench.out).d,
                       MulDay(Pad(<<MaxDurationDays>>, 4)))

\* C16: after any sequence of setCondition calls on a grant or a declaration
\* the condition list holds at most one entry per type, and a call changes an
\* entry's lastTransitionTime only when it flips the entry's status: a call
\* that changes only reason or message leaves the timestamp as it was.
ConditionsOf(conditions, type) ==
    {i \in 1..Len(conditions) : conditions[i].Type = type}
SetConditionCalled == bench.fn = "setCondition" /\ IsSome(bench.call)
C16_OneConditionPerTypeStableTimestamp ==
    bench.fn = "setCondition"
        => /\ \A type \in ConditionTypes :
                 Cardinality(ConditionsOf(bench.obj.Status.Conditions, type)) <= 1
           /\ IsSome(bench.call)
                 => /\ Len(bench.obj.Status.Conditions) >= Len(bench.before)
                    /\ \A i \in 1..Len(bench.before) :
                          LET old == bench.before[i]
                              new == bench.obj.Status.Conditions[i]
                          IN  /\ new.Type = old.Type
                              /\ new.LastTransitionTime # old.LastTransitionTime
                                    => /\ new.Status # old.Status
                                       /\ new.Type = Get(bench.call).Type
                                       /\ new.LastTransitionTime = now
                              /\ new.Status # old.Status
                                    => new.LastTransitionTime = now

C16_Witness ==
    /\ SetConditionCalled
    /\ bench.kind = "LLMProvider"
    /\ \E i \in 1..Len(bench.before) :
          /\ bench.before[i].Type = Get(bench.call).Type
          /\ bench.before[i].Status = Get(bench.call).Status
          /\ bench.before[i].Message # Get(bench.call).Message
          /\ bench.before[i].LastTransitionTime < now
          /\ bench.obj.Status.Conditions[i].Message = Get(bench.call).Message
          /\ bench.obj.Status.Conditions[i].LastTransitionTime
                = bench.before[i].LastTransitionTime

\* C17: reconciliation is idempotent.  With the grant's spec, the
\* declaration, the namespace labels and the master secret unchanged, a pass
\* that runs right after another pass for the same grant, whether or not an
\* API call of that pass failed, leaves the same conditions (type, status,
\* reason, message), secretRef, provisionedModels and Secrets as that pass
\* would have left had it run uninterrupted.  The pass that attaches the
\* finalizer is a step of its own (C2) and is followed by the business pass.
Observed(obj, store) ==
    [present |-> IsSome(obj),
     conditions |->
         IF IsSome(obj)
         THEN {[Type |-> c.Type, Status |-> c.Status, Reason |-> c.Reason,
                Message |-> c.Message] : c \in Range(Get(obj).Status.Conditions)}
         ELSE {},
     secretRef |-> IF IsSome(obj) THEN Get(obj).Status.SecretRef ELSE None,
     provisionedModels |->
         IF IsSome(obj) THEN Get(obj).Status.ProvisionedModels ELSE <<>>,
     secrets |-> store]
ProvisionCalled == bench.fn = "Provision" /\ IsSome(bench.out)
ProvisionOut == Get(bench.out)
BenchArtifactKey == <<bench.llmAccess.Namespace, bench.llmAccess.Spec.SecretName>>

\* The artifacts of the grant: the objects of the strategy's kind that carry
\* the grant's name in the access label
ProvisionArtifacts ==
    IF bench.strategy = "externalSecret"
    THEN {k \in ExternalSecretKeys :
             /\ IsSome(bench.externalSecrets[k])
             /\ "llmwarden.io/access" \in DOMAIN Get(bench.externalSecrets[k]).Labels
             /\ Get(bench.externalSecrets[k]).Labels["llmwarden.io/access"]
                   = bench.llmAccess.Name}
    ELSE {k \in SecretKeys :
             /\ IsSome(secrets[k])
             /\ "llmwarden.io/access" \in DOMAIN Get(secrets[k]).Labels
             /\ Get(secrets[k]).Labels["llmwarden.io/access"] = bench.llmAccess.Name}

\* Nothing stands in the way of Provision: the declaration carries the
\* strategy's configuration, the master secret holds the declared sub-key,
\* and the object at the artifact's name is not controlled by someone else.
ProvisionPossible ==
    IF bench.strategy = "externalSecret"
    THEN /\ IsSome(bench.provider.Spec.Auth.ExternalSecret)
         /\ IsSome(bench.externalSecrets[BenchArtifactKey])
               => ~AlreadyOwned(Get(bench.externalSecrets[BenchArtifactKey]),
                                bench.llmAccess.Name)
    ELSE /\ IsSome(bench.provider.Spec.Auth.APIKey)
         /\ IsSome(secrets[SourceKey])
         /\ SourceSecretKey \in DOMAIN Get(secrets[SourceKey]).Data
         /\ IsSome(secrets[BenchArtifactKey])
               => ~AlreadyOwned(Get(secrets[BenchArtifactKey]), bench.llmAccess.Name)

\* C18: Provision of either strategy is idempotent.  With declaration, grant
\* and master secret unchanged, a call that the API server does not fail
\* succeeds, whether the artifact exists or not; once a call has succeeded,
\* every further call leaves the Secrets and ExternalSecrets exactly as the
\* first successful call left them, and there is exactly one artifact of
\* the grant.
C18_ProvisionIdempotent ==
    (ProvisionCalled /\ bench.strategy \in {"apiKey", "externalSecret"}) =>
        /\ (ProvisionPossible /\ ~ProvisionOut.fault) => ~IsSome(ProvisionOut.err)
        /\ bench.ok >= 1 =>
              /\ secrets = Get(bench.single).secrets
              /\ bench.externalSecrets = Get(bench.single).externalSecrets
              /\ ProvisionArtifacts = {BenchArtifactKey}

\* Two successful calls on an ExternalSecret that was there before, with
\* labels of its own.
C18_Witness ==
    /\ ProvisionCalled
    /\ bench.strategy = "externalSecret"
    /\ bench.ok >= 2
    /\ ~IsSome(ProvisionOut.err)
    /\ "team" \in DOMAIN Get(bench.externalSecrets[BenchArtifactKey]).Labels

\* C19: after a successful Direct-Copy Provision (ApiKeyProvisioner.Provision
\* or the reconciler's provisionAPIKeySecret) the Secret at (grant namespace,
\* spec.secretName) holds under apiKey the value of the declared sub-key of
\* the master secret, under provider the provider type, under baseUrl the
\* endpoint override when the declaration has a non-empty one, the labels
\* managed-by, provider = declaration name and access = grant name, and the
\* grant as its only controller owner.
C19_DirectCopyArtifact ==
    (/\ ProvisionCalled
     /\ bench.strategy \in {"apiKey", "reconciler"}
     /\ ~IsSome(ProvisionOut.err)) =>
        /\ IsSome(secrets[BenchArtifactKey])
        /\ LET artifact == Get(secrets[BenchArtifactKey])
               provider == bench.provider
               ref == Get(provider.Spec.Auth.APIKey).SecretRef
               master == Get(secrets[<<ref.Namespace, ref.Name>>])
           IN  /\ "apiKey" \in DOMAIN artifact.Data
               /\ artifact.Data["apiKey"] = master.Data[ref.Key]
               /\ "provider" \in DOMAIN artifact.Data
               /\ artifact.Data["provider"] = provider.Spec.Provider
               /\ (IsSome(provider.Spec.Endpoint)
                   /\ Get(provider.Spec.Endpoint).BaseURL # "") =>
                      /\ "baseUrl" \in DOMAIN artifact.Data
                      /\ artifact.Data["baseUrl"] = Get(provider.Spec.Endpoint).BaseURL
               /\ {"llmwarden.io/managed-by", "llmwarden.io/provider",
                   "llmwarden.io/access"} \subseteq DOMAIN artifact.Labels
               /\ artifact.Labels["llmwarden.io/managed-by"] = "llmwarden"
               /\ artifact.Labels["llmwarden.io/provider"] = provider.Name
               /\ artifact.Labels["llmwarden.io/access"] = bench.llmAccess.Name
               /\ {r \in artifact.OwnerReferences : r.Controller}
                     = {[Name |-> bench.llmAccess.Name, Controller |-> TRUE]}

\* A first successful ApiKeyProvisioner.Provision over a foreign Secret with
\* a stale apiKey, for a declaration with an endpoint override.
C19_Witness ==
    /\ ProvisionCalled
    /\ bench.strategy = "apiKey"
    /\ bench.ok = 1
    /\ ~IsSome(ProvisionOut.err)
    /\ IsSome(bench.provider.Spec.Endpoint)
    /\ Get(bench.provider.Spec.Endpoint).BaseURL # ""
    /\ "extra" \in DOMAIN Get(secrets[BenchArtifactKey]).Data

\* ------------------------------------------------- master secret changes
\* The value the declaration points at in the master secret, before the pass
MasterValue ==
    LET ref == Get(Declaration.Spec.Auth.APIKey).SecretRef
    IN  Get(PreSecrets[<<ref.Namespace, ref.Name>>]).Data[ref.Key]

\* The pass found a copy whose apiKey is not the master secret's value.
CopyOutdated ==
    /\ DeclarationFound
    /\ SourceUsable
    /\ IsSome(PreSecrets[ArtifactKey])
    /\ "apiKey" \in DOMAIN Get(PreSecrets[ArtifactKey]).Data
    /\ Get(PreSecrets[ArtifactKey]).Data["apiKey"] # MasterValue

\* C20: when the master secret's value has changed and the grant is
\* reconciled again, the pass that provisions leaves the new value under
\* apiKey in the same Secret: same namespace and name, same controller
\* owner, no other Secret created or removed.
C20_MasterChangeUpdatesInPlace ==
    (CopyOutdated /\ last.branch = "Provisioned") =>
        /\ IsSome(secrets[ArtifactKey])
        /\ Get(secrets[ArtifactKey]).Data["apiKey"] = MasterValue
        /\ Get(secrets[ArtifactKey]).OwnerReferences
              = Get(PreSecrets[ArtifactKey]).OwnerReferences
        /\ {r.Name : r \in {o \in Get(secrets[ArtifactKey]).OwnerReferences :
                               o.Controller}} = {last.g}
        /\ \A k \in SecretKeys \ {ArtifactKey} : secrets[k] = PreSecrets[k]

C20_Witness ==
    /\ CopyOutdated
    /\ last.branch = "Provisioned"
    /\ Get(PreSecrets[ArtifactKey]).Data["apiKey"] = "sk-test-key"
    /\ Get(secrets[ArtifactKey]).Data["apiKey"] = "sk-new-key"

\* C21: Direct-Copy Provision (ApiKeyProvisioner.Provision and the
\* reconciler's provisionAPIKeySecret) returns an error and leaves every
\* Secret as it found it when the declaration has no apiKey configuration,
\* when the master secret does not exist, or when the master secret lacks
\* the declared sub-key.
ProvisionBefore == Get(bench.before)
MasterMissing ==
    \/ ~IsSome(bench.provider.Spec.Auth.APIKey)
    \/ ~IsSome(ProvisionBefore.secrets[SourceKey])
    \/ SourceSecretKey \notin DOMAIN Get(ProvisionBefore.secrets[SourceKey]).Data
C21_DirectCopyFailsWithoutMaster ==
    (/\ ProvisionCalled
     /\ bench.strategy \in {"apiKey", "reconciler"}
     /\ MasterMissing) =>
        /\ IsSome(ProvisionOut.err)
        /\ secrets = ProvisionBefore.secrets

\* The master secret is there without the declared sub-key, and a foreign
\* Secret sits at the artifact's name.
C21_Witness ==
    /\ ProvisionCalled
    /\ bench.strategy = "apiKey"
    /\ ~ProvisionOut.fault
    /\ IsSome(bench.provider.Spec.Auth.APIKey)
    /\ IsSome(ProvisionBefore.secrets[SourceKey])
    /\ SourceSecretKey \notin DOMAIN Get(ProvisionBefore.secrets[SourceKey]).Data
    /\ IsSome(secrets[BenchArtifactKey])
    /\ Get(secrets[BenchArtifactKey]).OwnerReferences = {}
    /\ IsSome(ProvisionOut.err)

\* ------------------------------------------------------ grant deletion
\* C22: the Secret a Direct-Copy pass writes has the grant as controller
\* owner for as long as it exists; it leaves the store only by garbage
\* collection after the grant is gone (no pass deletes it); and once a grant
\* with an artifact is marked for deletion, the artifact is eventually gone,
\* given that the work queue retries the grant's request until a pass goes
\* through without a failed API call.
PassesGoThrough == []<>(last.g = "chatbot-access" /\ last.fault = NoFault)
GrantOwns(k, g) ==
    {r \in Get(secrets[k]).OwnerReferences : r.Controller}
        = {[Name |-> g, Controller |-> TRUE]}
C22_ArtifactCollectedWithGrant ==
    /\ [](IsSome(secrets[TargetKey]) => GrantOwns(TargetKey, "chatbot-access"))
    /\ [][(IsSome(secrets[TargetKey]) /\ ~IsSome(secrets'[TargetKey]))
             => (~IsSome(access["chatbot-access"]) /\ last' = NoPass)]_vars
    /\ PassesGoThrough =>
          ((/\ IsSome(access["chatbot-access"])
            /\ Deleting(Get(access["chatbot-access"]))
            /\ IsSome(secrets[TargetKey]))
               ~> ~IsSome(secrets[TargetKey]))

\* The pass has removed the finalizer, the grant is gone, and the artifact
\* is still there for the garbage collector.
C22_Witness ==
    /\ PassDone
    /\ last.branch = "FinalizerRemoved"
    /\ ~IsSome(access[last.g])
    /\ IsSome(secrets[TargetKey])
    /\ GrantOwns(TargetKey, last.g)

\* ------------------------------------------------- Cleanup, HealthCheck
Called(call) == bench.fn = "Provision" /\ IsSome(bench.out) /\ Get(bench.out).call = call
CallOut == Get(bench.out)
CallBefore == Get(bench.before)

\* C23: Cleanup of either strategy returns an error exactly when the delete
\* fails for a reason other than not-found, and then changes nothing;
\* otherwise it returns success and the store is the store it found without
\* the object at (grant namespace, spec.secretName), which is the store it
\* found when that object was already absent.
C23_CleanupDeletesAbsentIsSuccess ==
    (Called("Cleanup") /\ bench.strategy \in {"apiKey", "externalSecret"}) =>
        /\ IsSome(CallOut.err) <=> CallOut.fault
        /\ CallOut.fault =>
              /\ secrets = CallBefore.secrets
              /\ bench.externalSecrets = CallBefore.externalSecrets
        /\ (~CallOut.fault /\ bench.strategy = "apiKey") =>
              /\ secrets = [CallBefore.secrets EXCEPT ![BenchArtifactKey] = None]
              /\ bench.externalSecrets = CallBefore.externalSecrets
              /\ ~IsSome(CallBefore.secrets[BenchArtifactKey])
                    => secrets = CallBefore.secrets
        /\ (~CallOut.fault /\ bench.strategy = "externalSecret") =>
              /\ bench.externalSecrets
                    = [CallBefore.externalSecrets EXCEPT ![BenchArtifactKey] = None]
              /\ secrets = CallBefore.secrets
              /\ ~IsSome(CallBefore.externalSecrets[BenchArtifactKey])
                    => bench.externalSecrets = CallBefore.externalSecrets

\* A Cleanup that found nothing after a Provision had succeeded: the Secret
\* had been removed by an earlier Cleanup.
C23_Witness ==
    /\ Called("Cleanup")
    /\ bench.strategy = "apiKey"
    /\ bench.ok >= 1
    /\ ~CallOut.fault
    /\ ~IsSome(CallBefore.secrets[BenchArtifactKey])
    /\ ~IsSome(CallOut.err)

\* C24: the Direct-Copy HealthCheck writes nothing, and when its read of
\* the artifact does not fail it returns no error and a result that is
\* unhealthy with "Secret not found" when the artifact is absent, unhealthy
\* when the artifact has no apiKey key, and healthy otherwise; a master
\* secret that cannot be read then shows as a warning on the healthy result.
MasterUnreachable ==
    /\ IsSome(bench.provider.Spec.Auth.APIKey)
    /\ \/ CallOut.fault = "GetSource"
       \/ ~IsSome(secrets[SourceKey])
ReadyEntries(obj) ==
    IF /\ IsSome(obj)
       /\ IsSome(Get(obj).status)
       /\ IsSome(Get(Get(obj).status).conditions)
       /\ Get(Get(Get(obj).status).conditions).isSlice
    THEN LET items == Get(Get(Get(obj).status).conditions).items
         IN  {i \in 1..Len(items) :
                 /\ items[i].isMap
                 /\ "type" \in DOMAIN items[i].fields
                 /\ items[i].fields["type"] = Str("Ready")}
    ELSE {}
FirstReadyIsTrue(obj) ==
    /\ ReadyEntries(obj) # {}
    /\ LET items == Get(Get(Get(obj).status).conditions).items
           first == CHOOSE i \in ReadyEntries(obj) : \A j \in ReadyEntries(obj) : i <= j
       IN  /\ "status" \in DOMAIN items[first].fields
           /\ items[first].fields["status"] = Str("True")

\* C26: ParseSyncStatus returns a result for every object: for nil, for an
\* object without status conditions and for conditions without a Ready entry
\* it is ready=false with a non-empty message; otherwise ready is true
\* exactly when the first Ready condition has status "True".  The healthy
\* flag of every result of the Delegated-Sync HealthCheck equals that ready
\* value for the ExternalSecret at the artifact's name.
C26_ParseSyncStatusTotal ==
    /\ (bench.fn = "ParseSyncStatus" /\ IsSome(bench.out)) =>
          LET r == Get(bench.out)
          IN  /\ r.Ready \in BOOLEAN
              /\ ReadyEntries(bench.obj) = {} => (~r.Ready /\ r.Message # "")
              /\ ReadyEntries(bench.obj) # {} => (r.Ready <=> FirstReadyIsTrue(bench.obj))
    /\ (/\ Called("HealthCheck")
        /\ bench.strategy = "externalSecret"
        /\ IsSome(CallOut.result)) =>
          (Get(CallOut.result).Healthy
              <=> FirstReadyIsTrue(bench.externalSecrets[BenchArtifactKey]))

\* Two Ready conditions, the first False and the second True: not ready.
C26_Witness ==
    /\ bench.fn = "ParseSyncStatus"
    /\ IsSome(bench.out)
    /\ Cardinality(ReadyEntries(bench.obj)) = 2
    /\ ~FirstReadyIsTrue(bench.obj)
    /\ ~Get(bench.out).Ready

\* -------------------------------------------- effective refresh interval
RefreshCalled == bench.fn = "effectiveRefreshInterval" /\ IsSome(bench.out)
RefreshOverride ==
    IF IsSome(bench.llmAccess.Spec.Rotation)
    THEN Get(bench.llmAccess.Spec.Rotation).Interval ELSE <<>>
\* Empty, or a duration string parseDuration accepts
ValidOrEmpty(s) == s = <<>> \/ ~parseDuration(s).err

\* C25: the effective refresh interval is the grant's rotation override when
\* present and non-empty, else the declaration's refreshInterval when
\* non-empty, else "1h"; and when both strings are empty or valid duration
\* strings, the reconciler's rotation interval comes from the same source:
\* the grant's string, the declaration's string, or the default (0).
C25_RefreshIntervalPrecedence ==
    RefreshCalled =>
        LET out == Get(bench.out)
            source == IF RefreshOverride # <<>> THEN "grant"
                      ELSE IF bench.providerInterval # <<>> THEN "declaration"
                      ELSE "default"
        IN  /\ source = "grant" => out.refresh = RefreshOverride
            /\ source = "declaration" => out.refresh = bench.providerInterval
            /\ source = "default" => out.refresh = <<"1", "h">>
            /\ (ValidOrEmpty(RefreshOverride) /\ ValidOrEmpty(bench.providerInterval)) =>
                  /\ source = "grant" =>
                        out.rotation = parseDuration(RefreshOverride).d
                  /\ source = "declaration" =>
                        out.rotation = parseDuration(bench.providerInterval).d
                  /\ source = "default" => out.rotation = Zero64

\* No override on the grant, 24h on the declaration: both resolve to the
\* declaration's interval.
C25_Witness ==
    /\ RefreshCalled
    /\ RefreshOverride = <<>>
    /\ bench.providerInterval = <<"2", "4", "h">>
    /\ Get(bench.out).refresh = <<"2", "4", "h">>
    /\ Get(bench.out).rotation = parseDuration(<<"2", "4", "h">>).d

\* ------------------------------------------------------ admission injector
HandleCalled == bench.fn = "Handle" /\ IsSome(bench.out)
HandleResponse == Get(bench.out).response
ListFailed == Get(bench.out).listFails
Undecodable == bench.req.Object = None
RequestPod == Get(bench.req.Object)
NoObservation == \A l \in CounterLabels : bench.WebhookInjectionsTotal[l] = 0
\* The grants of the cluster a decoded pod of the request matches
Selects(grant, pod) ==
    /\ IsSome(grant.Spec.WorkloadSelector)
    /\ SelectorValid(Get(grant.Spec.WorkloadSelector))
    /\ SelectorMatches(Get(grant.Spec.WorkloadSelector), pod.Labels)
MatchingGrants ==
    {i \in 1..Len(bench.cluster) :
        /\ bench.cluster[i].Namespace = bench.req.Namespace
        /\ Selects(bench.cluster[i], RequestPod)}

PatchedPod == Get(HandleResponse.Patch)
AllContainers(pod) == pod.Spec.Containers \o pod.Spec.InitContainers
AddedEnv(c) ==
    LET before == AllContainers(RequestPod)[c].Env
        after == AllContainers(PatchedPod)[c].Env
    IN  SubSeq(after, Len(before) + 1, Len(after))
AddedMounts(c) ==
    LET before == AllContainers(RequestPod)[c].VolumeMounts
        after == AllContainers(PatchedPod)[c].VolumeMounts
    IN  SubSeq(after, Len(before) + 1, Len(after))
AddedVolumes ==
    SubSeq(PatchedPod.Spec.Volumes, Len(RequestPod.Spec.Volumes) + 1,
           Len(PatchedPod.Spec.Volumes))
InjectedSecrets ==
    UNION {{Get(e.ValueFrom).SecretKeyRef.Name : e \in Range(AddedEnv(c))} :
              c \in 1..Len(AllContainers(PatchedPod))}
    \cup {v.Secret.SecretName : v \in Range(AddedVolumes)}
InjectedVolumeNames ==
    {v.Name : v \in Range(AddedVolumes)}
    \cup UNION {{m.Name : m \in Range(AddedMounts(c))} :
                  c \in 1..Len(AllContainers(PatchedPod))}

\* C28: when the list succeeds, a pod that no grant of its namespace selects
\* is allowed with no patch and nothing is counted; otherwise every secret
\* and every volume the patch adds is the one of a grant of the pod's
\* namespace whose selector is present and matches the pod's labels.
C28_InjectionOnlyFromMatchingGrants ==
    (HandleCalled /\ ~Undecodable /\ ~ListFailed) =>
        IF MatchingGrants = {}
        THEN /\ HandleResponse.Allowed
             /\ HandleResponse.Patch = None
             /\ NoObservation
        ELSE /\ IsSome(HandleResponse.Patch)
             /\ PatchedPod.Labels = RequestPod.Labels
             /\ InjectedSecrets \subseteq
                   {bench.cluster[i].Spec.SecretName : i \in MatchingGrants}
             /\ InjectedVolumeNames \subseteq
                   {"llmwarden-" \o bench.cluster[i].Name : i \in MatchingGrants}

\* A grant of the namespace selects the pod, a grant of another namespace
\* with the same selector is in the cluster: only the first one's secret is
\* injected.
C28_Witness ==
    /\ HandleCalled /\ ~Undecodable /\ ~ListFailed
    /\ MatchingGrants # {}
    /\ \E i \in 1..Len(bench.cluster) :
          /\ bench.cluster[i].Namespace = OtherNamespace
          /\ Selects(bench.cluster[i], RequestPod)
    /\ InjectedSecrets = {TargetSecretName}

\* What the matching grants from index i on declare for one container: the
\* env entries, the mounts, and for the pod the volumes, in list order.
RECURSIVE DeclaredEnv(_)
DeclaredEnv(i) ==
    IF i > Len(bench.cluster) THEN <<>>
    ELSE LET g == bench.cluster[i]
             mine == [m \in 1..Len(g.Spec.Injection.Env) |->
                        [Name |-> g.Spec.Injection.Env[m].Name,
                         Value |-> "",
                         ValueFrom |-> Some([SecretKeyRef |->
                            [Name |-> g.Spec.SecretName,
                             Key |-> g.Spec.Injection.Env[m].SecretKey]])]]
         IN  (IF i \in MatchingGrants THEN mine ELSE <<>>) \o DeclaredEnv(i + 1)
RECURSIVE DeclaredMounts(_)
DeclaredMounts(i) ==
    IF i > Len(bench.cluster) THEN <<>>
    ELSE LET g == bench.cluster[i]
             mine == <<[Name |-> "llmwarden-" \o g.Name,
                        MountPath |-> Get(g.Spec.Injection.Volume).MountPath,
                        ReadOnly |-> Get(g.Spec.Injection.Volume).ReadOnly]>>
         IN  (IF i \in MatchingGrants /\ IsSome(g.Spec.Injection.Volume)
              THEN mine ELSE <<>>) \o DeclaredMounts(i + 1)
RECURSIVE DeclaredVolumes(_)
DeclaredVolumes(i) ==
    IF i > Len(bench.cluster) THEN <<>>
    ELSE LET g == bench.cluster[i]
             mine == <<[Name |-> "llmwarden-" \o g.Name,
                        Secret |-> [SecretName |-> g.Spec.SecretName]]>>
         IN  (IF i \in MatchingGrants /\ IsSome(g.Spec.Injection.Volume)
              THEN mine ELSE <<>>) \o DeclaredVolumes(i + 1)

MatchedProviders == {bench.cluster[i].Spec.ProviderRef.Name : i \in MatchingGrants}
EachOnce(names) ==
    {s \in [1..Cardinality(names) -> names] : Range(s) = names}

\* C30: a request that leads to a patch counts one injection for each
\* declaration a matching grant refers to, under the request's namespace,
\* and nothing else, and the injected-providers annotation of the patched pod
\* names each of these declarations once, with injection-status "injected".
C30_OneObservationPerDeclaration ==
    (HandleCalled /\ IsSome(HandleResponse.Patch)) =>
        /\ \A l \in CounterLabels :
              bench.WebhookInjectionsTotal[l] =
                 IF l[1] = bench.req.Namespace /\ l[2] \in MatchedProviders
                 THEN 1 ELSE 0
        /\ PatchedPod.Annotations[InjectionStatusAnnotation] = "injected"
        /\ PatchedPod.Annotations[InjectedProvidersAnnotation] \in
              {JoinString(s, ",") : s \in EachOnce(MatchedProviders)}

\* --------------------------------------------------------- grant validator
StoredGrant == Get(bench.stored)
GrantStored == bench.fn = "Validate" /\ IsSome(bench.stored)
WellFormedGrant(obj) ==
    /\ obj.Spec.ProviderRef.Name # ""
    /\ obj.Spec.SecretName # ""
    /\ (Len(obj.Spec.Injection.Env) > 0 \/ IsSome(obj.Spec.Injection.Volume))
    /\ \A i \in 1..Len(obj.Spec.Injection.Env) :
          LET name == obj.Spec.Injection.Env[i].Name
          IN  /\ Len(name) >= 1
              /\ name[1] \in UpperCase \cup {"_"}
              /\ \A j \in 2..Len(name) : name[j] \in UpperCase \cup Digits \cup {"_"}
    /\ IsSome(obj.Spec.Injection.Volume) =>
          LET path == Get(obj.Spec.Injection.Volume).MountPath
          IN  Len(path) >= 1 /\ path[1] = "/"

\* C31: the grant the store holds after any sequence of admitted create and
\* update requests has a non-empty providerRef.name and secretName, at least
\* one of env and volume, only env names of the form [A-Z_][A-Z0-9_]*, and,
\* with a volume, a non-empty absolute mount path.
C31_StoredGrantWellFormed ==
    GrantStored => WellFormedGrant(StoredGrant)

\* C32: no stored grant maps a reserved variable name, and no container of a
\* pod admitted under the stored grant receives an env entry of such a name.
C32_ReservedEnvVarsProtected ==
    /\ GrantStored =>
          \A i \in 1..Len(StoredGrant.Spec.Injection.Env) :
              StoredGrant.Spec.Injection.Env[i].Name \notin reservedEnvVars
    /\ (GrantStored /\ IsSome(bench.injected)
           /\ IsSome(Get(bench.injected).response.Patch)) =>
          LET patched == Get(Get(bench.injected).response.Patch)
          IN  \A c \in Range(patched.Spec.Containers \o patched.Spec.InitContainers) :
                 \A e \in Range(c.Env) : e.Name \notin reservedEnvVars

\* ------------------------------------------------------------- work queue
QueueRuns == bench.fn = "workqueue"
Stale(g) ==
    /\ QueueRuns
    /\ IsSome(access[g])
    /\ bench.stale[g].declaration \/ bench.stale[g].artifact
Pending(g) == g \in bench.queue \cup bench.timers

\* The controller gets to every queued request: a request that stays queued
\* is processed again and again by a pass in which no API call fails.
WorkItemsProcessed ==
    \A g \in Requests :
        \/ []<>(QueueRuns /\ g \notin bench.queue)
        \/ []<><<ProcessNextWorkItem(g, NoFault)>>_vars

\* C33: when the declaration a grant refers to has been created, deleted or
\* edited (allow-list, namespace selector), or the artifact a grant owns has
\* been overwritten or deleted, a pass for that grant eventually begins.
C33_ChangesRetriggerReconcile ==
    WorkItemsProcessed => \A g \in Requests : Stale(g) ~> ~Stale(g)

\* The declaration g refers to is in the store, admits g's namespace and
\* models, uses direct-key auth, its master secret holds the declared key,
\* and the environment is through with its events.
DeclarationUsable(g) ==
    LET obj == Get(access[g])
        d == Get(providers[obj.Spec.ProviderRef.Name])
        ref == Get(d.Spec.Auth.APIKey).SecretRef
    IN  /\ obj.Spec.ProviderRef.Name \in ProviderNames
        /\ IsSome(providers[obj.Spec.ProviderRef.Name])
        /\ \/ ~IsSome(d.Spec.NamespaceSelector)
           \/ SelectorMatches(Get(d.Spec.NamespaceSelector),
                              Get(namespaces[obj.Namespace]).Labels)
        /\ \/ d.Spec.AllowedModels = <<>>
           \/ Range(obj.Spec.Models) \subseteq Range(d.Spec.AllowedModels)
        /\ d.Spec.Auth.Type = AuthTypeAPIKey
        /\ IsSome(d.Spec.Auth.APIKey)
        /\ <<ref.Namespace, ref.Name>> \in SecretKeys
        /\ IsSome(secrets[<<ref.Namespace, ref.Name>>])
        /\ ref.Key \in DOMAIN Get(secrets[<<ref.Namespace, ref.Name>>]).Data
MarkedNotFound(obj) ==
    HasCondition(obj, ConditionTypeReady, ConditionFalse, ReasonProviderNotFound)
Recoverable(g) ==
    /\ QueueRuns
    /\ now = MaxEvents
    /\ IsSome(access[g])
    /\ ~Deleting(Get(access[g]))
    /\ MarkedNotFound(Get(access[g]))
    /\ DeclarationUsable(g)
Recovered(g) ==
    /\ IsSome(access[g])
    /\ ConditionStatus(Get(access[g]), ConditionTypeReady, ConditionTrue)
    /\ IsSome(secrets[<<Get(access[g]).Namespace, Get(access[g]).Spec.SecretName>>])

\* No API call of a pass fails once the environment is quiet.
CallsSucceed == [](now = MaxEvents => last.fault = NoFault)

ReadyTrue(obj) == ConditionStatus(obj, ConditionTypeReady, ConditionTrue)
ReadyFalse(obj) == ConditionStatus(obj, ConditionTypeReady, ConditionFalse)
ProvisionedTrue(obj) ==
    ConditionStatus(obj, ConditionTypeCredentialProvisioned, ConditionTrue)
ProvisionedFalse(obj) ==
    ConditionStatus(obj, ConditionTypeCredentialProvisioned, ConditionFalse)

\* C35: every stored grant with Ready=True has CredentialProvisioned=True;
\* a step in which Ready becomes True is a pass that leaves
\* CredentialProvisioned=True, and a step in which CredentialProvisioned
\* becomes False leaves Ready=False.
C35_ReadyImpliesProvisioned ==
    /\ [](\A g \in Grants :
            (IsSome(access[g]) /\ ReadyTrue(Get(access[g])))
               => ProvisionedTrue(Get(access[g])))
    /\ [][\A g \in Grants :
            (IsSome(access[g]) /\ IsSome(access'[g])) =>
               /\ (~ReadyTrue(Get(access[g])) /\ ReadyTrue(Get(access'[g])))
                     => (last'.g = g /\ ProvisionedTrue(Get(access'[g])))
               /\ (~ProvisionedFalse(Get(access[g])) /\ ProvisionedFalse(Get(access'[g])))
                     => (last'.g = g /\ ReadyFalse(Get(access'[g])))]_vars

\* A grant that was Ready and provisioned, after a pass whose provisioning
\* failed: both conditions are False.
C35_Witness ==
    /\ BusinessPass
    /\ last.branch = "ProvisionFailed"
    /\ ReadyTrue(Get(PreAccess))
    /\ ProvisionedTrue(Get(PreAccess))
    /\ ReadyFalse(Stored)
    /\ ProvisionedFalse(Stored)

\* ------------------------------------------------------ deleting grants
DeletingPass == PassDone /\ IsSome(PreAccess) /\ Deleting(Get(PreAccess))

\* C36: a pass for a grant whose deletion has been requested leaves every
\* Secret and the grant's spec and status as they were and emits no event;
\* with the finalizer, the grant after the pass is the grant before it or
\* the grant without the finalizer (gone with its last finalizer); without
\* the finalizer, the pass only reads the grant.
C36_DeletingGrantOnlyLosesGuard ==
    DeletingPass =>
        /\ secrets = PreSecrets
        /\ last.events = <<>>
        /\ IsSome(access[last.g]) =>
              /\ Stored.Status = Get(PreAccess).Status
              /\ Stored.Spec = Get(PreAccess).Spec
              /\ Stored.Finalizers \in
                    {Get(PreAccess).Finalizers,
                     Get(PreAccess).Finalizers \ {llmAccessFinalizer}}
        /\ ~IsSome(access[last.g]) =>
              Get(PreAccess).Finalizers = {llmAccessFinalizer}
        /\ ~Guarded(Get(PreAccess)) =>
              /\ access[last.g] = PreAccess
              /\ last.calls = <<"Get">>

\* A deleting grant that was provisioned and has lost the finalizer, held
\* in the store by a foreground deletion: the pass reads it and returns,
\* its artifact still in the store.
C36_Witness ==
    /\ DeletingPass
    /\ ~Guarded(Get(PreAccess))
    /\ ReadyTrue(Get(PreAccess))
    /\ IsSome(secrets[TargetKey])
    /\ last.branch = "Deleting"

\* ------------------------------------------- rejection of a Ready grant
RejectedBranches ==
    {"ProviderNotFound", "NamespaceNotAllowed", "ModelNotAllowed",
     "AuthTypeNotSupported"}
OtherConditions(obj) ==
    SelectSeq(obj.Status.Conditions, LAMBDA c : c.Type # ConditionTypeReady)

\* C37: a pass that rejects a grant that was Ready=True leaves every Secret,
\* the grant's spec, and of its status secretRef, provisionedModels,
\* lastRotation, nextRotation and every condition but Ready as they were.
C37_RejectionChangesOnlyReady ==
    (BusinessPass /\ ReadyTrue(Get(PreAccess)) /\ last.branch \in RejectedBranches)
        => /\ secrets = PreSecrets
           /\ Stored.Spec = Get(PreAccess).Spec
           /\ Stored.Status.SecretRef = Get(PreAccess).Status.SecretRef
           /\ Stored.Status.ProvisionedModels = Get(PreAccess).Status.ProvisionedModels
           /\ Stored.Status.LastRotation = Get(PreAccess).Status.LastRotation
           /\ Stored.Status.NextRotation = Get(PreAccess).Status.NextRotation
           /\ OtherConditions(Stored) = OtherConditions(Get(PreAccess))

\* A Ready grant whose models the declaration no longer allows: Ready is
\* False now, CredentialProvisioned still True, the artifact in place.
C37_Witness ==
    /\ BusinessPass
    /\ ReadyTrue(Get(PreAccess))
    /\ last.branch = "ModelNotAllowed"
    /\ ReadyFalse(Stored)
    /\ ProvisionedTrue(Stored)
    /\ IsSome(Stored.Status.SecretRef)
    /\ IsSome(secrets[ArtifactKey])

\* ------------------------------------------------------- next rotation
SuccessfulPass ==
    /\ BusinessPass
    /\ last.branch = "Provisioned"
    /\ last.fault # "StatusUpdate"
PassInterval == getRotationInterval(Get(PreAccess), Declaration)

\* C38: after a successful pass, status.nextRotation is present exactly when
\* the rotation interval the pass computed is positive, and then it is
\* status.lastRotation plus the interval.
C38_NextRotationFollowsInterval ==
    SuccessfulPass =>
        /\ IsSome(Stored.Status.NextRotation) <=> Positive(PassInterval)
        /\ Positive(PassInterval) =>
              Get(Stored.Status.NextRotation)
                 = Get(Stored.Status.LastRotation) + Seconds(PassInterval)

\* The controller owners of the artifact, and a pass for a grant that finds
\* the artifact under another grant's control.
ArtifactControllers ==
    IF IsSome(secrets[TargetKey])
    THEN {r \in Get(secrets[TargetKey]).OwnerReferences : r.Controller}
    ELSE {}
ForeignArtifactPass == BusinessPass /\ ~ArtifactFree
ReadyGrants == {g \in Grants : IsSome(access[g]) /\ ReadyTrue(Get(access[g]))}

\* C39: with two grants naming the same secretName, the artifact has at most
\* one controller owner; a pass for the grant that is not the controller
\* leaves every Secret as it was and never ends with Ready=True, and without
\* a failing call it ends with Ready=False, the provisioning error and the
\* retry after RequeueProvisionFailed; the two grants are never both
\* Ready=True.
C39_OneControllerPerArtifact ==
    /\ Cardinality(ArtifactControllers) <= 1
    /\ Cardinality(ReadyGrants) <= 1
    /\ ForeignArtifactPass =>
          /\ secrets = PreSecrets
          /\ ~ReadyTrue(Stored)
          /\ last.fault = NoFault =>
                /\ last.branch = "ProvisionFailed"
                /\ last.result = Result(FALSE, RequeueProvisionFailed, TRUE)
                /\ ReadyFalse(Stored)
                /\ ProvisionedFalse(Stored)

C39_Witness ==
    /\ ForeignArtifactPass
    /\ last.g = "second-access"
    /\ last.branch = "ProvisionFailed"
    /\ ReadyFalse(Stored)
    /\ IsSome(access["chatbot-access"])
    /\ ReadyTrue(Get(access["chatbot-access"]))
    /\ \E r \in ArtifactControllers : r.Name = "chatbot-access"
    /\ Get(secrets[TargetKey]).Data = Get(PreSecrets[TargetKey]).Data

\* Both lists have been handled, and the lists differ.
BothHandled == bench.fn = "HandleStatus" /\ \A side \in Sides : IsSome(bench.out[side])
OutOf(side) == Get(bench.out[side])

\* C40: for one pod, two lists of grants with the same specs in the same
\* order, one with every grant Ready and one with each grant Ready,
\* rejected, never reconciled or terminating, get the same admission
\* response (the same patch) and the same observations.
C40_InjectionIgnoresGrantStatus ==
    BothHandled => OutOf("cluster") = OutOf("twin")

C40_Witness ==
    /\ BothHandled
    /\ IsSome(OutOf("twin").response.Patch)
    /\ OutOf("twin").response.Patch # bench.req.Object
    /\ \E i \in 1..Len(bench.lists["twin"]) :
          LET g == bench.lists["twin"][i]
          IN  /\ g.Namespace = bench.req.Namespace
              /\ shouldInject(Get(bench.req.Object), g)
              /\ Len(g.Spec.Injection.Env) > 0
              /\ \/ IsSome(g.DeletionTimestamp)
                 \/ g.Status.Conditions = <<>>

====
